---- MODULE Spec2Model ----
(***************************************************************************)
(* mach9: the per-connection HTTP protocol state machine (mach9/http.py),  *)
(* the request pipeline's use of the body and reply channels, the cached   *)
(* clock (mach9/timer.py) and the worker's serve/drain sequence            *)
(* (mach9/server.py).                                                      *)
(*                                                                         *)
(* Bytes on the wire are abstracted to tokens of one byte each: a request  *)
(* line, a header line, the blank line that ends the headers, a body byte  *)
(* and a malformed byte.  The httptools parser is modelled by the          *)
(* callbacks it makes on the protocol for a token sequence.                *)
(***************************************************************************)
EXTENDS Naturals, Integers, Sequences, FiniteSets, TLC

VARIABLES
    conn,            \* conn[c]: the HttpProtocol object of connection c, with its transport and loop tasks
    connections,     \* the worker's shared live-connection set
    signal_stopped,  \* Signal.stopped
    current_time,    \* timer.current_time, the cached clock, in seconds; loop.time() advances with it
    cfg_keep_alive,  \* the keep_alive setting every protocol is constructed with
    sent,            \* bytes the clients have sent so far
    server,          \* position of Server.serve
    call,            \* a call of one of the protocol's pure methods: its arguments and its result
    parent,          \* the parent process of Server.serve_multiple, its socket and its workers
    app              \* a Mach9 application: its registered middleware and one run of asgi_handler

vars == <<conn, connections, signal_stopped, current_time, cfg_keep_alive, call, parent, app, sent, server>>

----------------------------------------------------------------------------
(* Bounds *)

NConn == 1          \* connections accepted by the worker
NPeers == 2         \* connections accepted by a worker that serves several clients at once
NWorkers == 2       \* worker processes Server.serve_multiple starts
MaxMiddleware == 3  \* middleware registered on the application for requests, and for responses
MaxFrames == 3      \* frames a WebSocket client sends on one connection
MaxSignals == 2     \* SIGINT or SIGTERM signals the parent process receives
MaxLines == 2       \* headers in the header list of one response message
MaxContent == 12    \* bytes of content in one response message given to a pure method
MaxBytes == 5       \* bytes the clients send in total
MaxServed == 4      \* bytes the clients of a worker that can be stopped send in total
MaxData == 2        \* bytes handed to one data_received call
MaxHeaders == 2     \* header lines a client sends in one request
MaxTime == 1        \* with no timer pending the loop clock stops advancing here
MaxSends == 2        \* messages the handler tasks of one connection send on their reply channels

(* Configuration of the protocol *)

request_timeout == 2
request_max_size == 4

(* the connections of the worker *)
Conns == DOMAIN conn

None == <<>>
Some(v) == <<v>>
Val(o) == o[1]

(* no call of a pure method is being looked at; no parent process is modelled *)
NoCall == [fn |-> "none"]
NoParent == [pc |-> "none"]
(* no application is modelled beyond the request pipeline of its connections *)
NoApp == [pc |-> "none"]

----------------------------------------------------------------------------
(* Byte strings *)

BadRequestMsg == <<"B","a","d"," ","R","e","q","u","e","s","t">>
PayloadTooLargeMsg == <<"P","a","y","l","o","a","d"," ","T","o","o"," ","L","a","r","g","e">>
RequestTimeoutMsg == <<"R","e","q","u","e","s","t"," ","T","i","m","e","o","u","t">>
ErrorPrefix == <<"E","r","r","o","r",":"," ">>

(* The exceptions the protocol raises, as (class, message) *)
InvalidUsage(msg) == [cls |-> "InvalidUsage", msg |-> msg]
PayloadTooLarge(msg) == [cls |-> "PayloadTooLarge", msg |-> msg]
RequestTimeout(msg) == [cls |-> "RequestTimeout", msg |-> msg]
ServerError(msg) == [cls |-> "ServerError", msg |-> msg]

status_code(exception) ==
    CASE exception.cls = "InvalidUsage" -> 400
      [] exception.cls = "PayloadTooLarge" -> 413
      [] exception.cls = "RequestTimeout" -> 408
      [] OTHER -> 500

(* ErrorHandler.response: text('Error: {}'.format(exception), status) *)
error_handler_response(request, exception) ==
    [status |-> status_code(exception),
     body |-> ErrorPrefix \o exception.msg,
     headers |-> << <<"Content-Type", "text/plain; charset=utf-8">> >>]

ALL_STATUS_CODES(status) ==
    CASE status = 200 -> "OK"
      [] status = 400 -> "Bad Request"
      [] status = 408 -> "Request Timeout"
      [] status = 413 -> "Request Entity Too Large"
      [] status = 500 -> "Internal Server Error"
      [] OTHER -> "UNKNOWN"

(* HTTPResponse.get_message *)
get_message(response, more_content) ==
    [status |-> Some(response.status),
     content |-> response.body,
     headers |-> Some(response.headers),
     more_content |-> more_content]

(* HTTPResponse.get_response_chunk *)
get_response_chunk(content, more_content) ==
    [status |-> None, content |-> content, headers |-> None,
     more_content |-> more_content]

----------------------------------------------------------------------------
(* The transport (asyncio/uvloop stream transport), as the protocol uses it *)

NewTransport == [closing |-> FALSE, buffered |-> FALSE, lost |-> FALSE, protocol |-> "http"]

(* transport.write: a write is buffered until the loop flushes it; once    *)
(* close() has found the buffer empty, or the connection is lost, the      *)
(* bytes are discarded.                                                    *)
transport_write(p, data) ==
    IF p.transport.lost \/ (p.transport.closing /\ ~p.transport.buffered)
    THEN p
    ELSE [p EXCEPT !.wire = Append(@, data), !.transport.buffered = TRUE]

transport_close(p) == [p EXCEPT !.transport.closing = TRUE]

----------------------------------------------------------------------------
(* HttpProtocol *)

HttpProtocol(keep_alive_arg) ==
    [made |-> FALSE,
     transport |-> NewTransport,
     wire |-> <<>>,
     parser |-> None,
     url |-> None,
     headers |-> None,
     body_channel |-> None,
     message |-> None,
     _total_request_size |-> 0,
     _timeout_handler |-> None,
     _last_request_time |-> None,
     _request_handler_task |-> None,
     _request_stream_task |-> None,
     _is_upgrade |-> FALSE,
     _keep_alive |-> keep_alive_arg,
     handlers |-> <<>>,
     puts |-> <<>>,
     nput |-> 0,
     reqno |-> 0,
     cur_req |-> 0,
     rx_req |-> 0,
     rejected |-> FALSE,
     rxbody |-> <<>>,
     error_handler |-> "response",
     errors |-> <<>>,
     rxheaders |-> <<>>,
     websocket |-> None]

should_keep_alive(parser) == parser.ka

(* keep_alive that does not look at the shared signal *)
keep_alive_unsignalled(p) ==
    /\ p._keep_alive
    /\ p.parser # None
    /\ should_keep_alive(Val(p.parser))

keep_alive(p) ==
    /\ p._keep_alive
    /\ ~signal_stopped
    /\ p.parser # None
    /\ should_keep_alive(Val(p.parser))

(* cleanup that leaves the byte counter as it is *)
cleanup_keeps_size(p) ==
    [p EXCEPT !.parser = None,
              !.url = None,
              !.headers = None,
              !._request_handler_task = None,
              !._request_stream_task = None,
              !.body_channel = None,
              !.message = None,
              !.cur_req = 0]

cleanup(p) ==
    [p EXCEPT !.parser = None,
              !.url = None,
              !.headers = None,
              !._request_handler_task = None,
              !._request_stream_task = None,
              !._total_request_size = 0,
              !.body_channel = None,
              !.message = None,
              !.cur_req = 0]

(* check_headers that takes any Connection header for a request to close *)
check_headers_any_value(headers) ==
    [connection_close |-> \E i \in 1..Len(headers) : headers[i][1] = "Connection",
     content_length |-> \E i \in 1..Len(headers) : headers[i][1] = "Content-Length"]

check_headers(headers) ==
    [connection_close |-> \E i \in 1..Len(headers) :
                              headers[i][1] = "Connection" /\ headers[i][2] = "close",
     content_length |-> \E i \in 1..Len(headers) : headers[i][1] = "Content-Length"]

(* after_write that keeps the old last-activity timestamp *)
after_write_stale(p, more_content, ka) ==
    IF ~more_content /\ ~ka THEN transport_close(p)
    ELSE IF ~more_content /\ ka THEN cleanup(p)
         ELSE p

after_write(p, more_content, ka) ==
    IF ~more_content /\ ~ka THEN transport_close(p)
    ELSE IF ~more_content /\ ka
         THEN cleanup([p EXCEPT !._last_request_time = Some(current_time)])
         ELSE p

is_response_chunk(message) == message.status = None /\ message.headers = None

(* str(n).encode() *)
RECURSIVE str(_)
str(n) ==
    LET digit(d) == <<"0","1","2","3","4","5","6","7","8","9">>[d + 1]
    IN  IF n < 10 THEN digit(n) ELSE str(n \div 10) \o digit(n % 10)

(* the loop of make_header_content over the caller's headers; the result is *)
(* the list of byte strings that b''.join concatenates in order             *)
RECURSIVE header_lines(_)
header_lines(headers) ==
    IF headers = <<>> THEN <<>>
    ELSE IF Head(headers)[1] = "Connection" THEN header_lines(Tail(headers))
         ELSE <<Head(headers)[1], ": ", Head(headers)[2], "\r\n">>
                  \o header_lines(Tail(headers))

(* make_header_content that computes a Content-Length for a streamed response too *)
make_header_content_streamed(headers, result_headers, content, more_content) ==
    IF headers = None THEN <<>>
    ELSE (IF ~result_headers.content_length
          THEN <<"Content-Length: ", str(Len(content)), "\r\n">> ELSE <<>>)
         \o header_lines(Val(headers))

make_header_content(headers, result_headers, content, more_content) ==
    IF headers = None THEN <<>>
    ELSE (IF ~more_content /\ ~result_headers.content_length
          THEN <<"Content-Length: ", str(Len(content)), "\r\n">> ELSE <<>>)
         \o header_lines(Val(headers))

(* b'%x' % n *)
RECURSIVE hex(_)
hex(n) ==
    LET digit(d) == <<"0","1","2","3","4","5","6","7","8","9","a","b","c","d","e","f">>[d + 1]
    IN  IF n < 16 THEN <<digit(n)>> ELSE hex(n \div 16) \o <<digit(n % 16)>>

(* a chunk written without its frame *)
chunk_unframed(content) == content

(* b'%x\r\n%b\r\n' % (content_length, content) *)
chunk_frame(content) == hex(Len(content)) \o <<"\r\n">> \o content \o <<"\r\n">>

(* b'0\r\n\r\n' *)
last_chunk == <<"0", "\r\n", "\r\n">>

(* What send saw when it computed the keep-alive decision of a write *)
Seen(p, result_headers) ==
    [connection_close |-> result_headers.connection_close,
     stopped |-> signal_stopped,
     parser_active |-> p.parser # None,
     should_keep_alive |-> p.parser # None /\ should_keep_alive(Val(p.parser))]

(* HttpProtocol.send; req and via record which request and which caller    *)
(* the bytes written belong to.  transport.write on a lost connection      *)
(* raises RuntimeError, which ends send before after_write.                *)
send(p0, message, req, via) ==
    LET result_headers == IF message.headers # None
                          THEN check_headers(Val(message.headers))
                          ELSE [connection_close |-> FALSE, content_length |-> FALSE]
        p == IF message.headers # None /\ result_headers.connection_close
             THEN [p0 EXCEPT !._keep_alive = FALSE] ELSE p0
        ka == keep_alive(p)
        more_content == message.more_content
        seen == Seen(p, result_headers)
    IN  IF p.transport.lost /\ ~(is_response_chunk(message) /\ more_content
                                /\ Len(message.content) = 0)
        THEN p
        ELSE IF is_response_chunk(message)
        THEN IF more_content /\ Len(message.content) > 0
             THEN after_write(
                    transport_write(p, [kind |-> "chunk", content |-> message.content,
                                        data |-> chunk_frame(message.content),
                                        more_content |-> TRUE, keep_alive |-> ka,
                                        seen |-> seen, req |-> req, via |-> via]),
                    more_content, ka)
             ELSE IF ~more_content
                  THEN after_write(
                         transport_write(p, [kind |-> "last", content |-> <<>>,
                                             data |-> last_chunk,
                                             more_content |-> FALSE, keep_alive |-> ka,
                                             seen |-> seen, req |-> req, via |-> via]),
                         more_content, ka)
                  ELSE p
        ELSE after_write(
               transport_write(p,
                 [kind |-> "response",
                  status |-> Val(message.status),
                  reason |-> ALL_STATUS_CODES(Val(message.status)),
                  connection |-> IF ka THEN "keep-alive" ELSE "close",
                  timeout_header |-> IF ka THEN Some(request_timeout) ELSE None,
                  header_content |-> make_header_content(message.headers, result_headers,
                                                         message.content, more_content),
                  content |-> message.content,
                  more_content |-> more_content,
                  keep_alive |-> ka,
                  seen |-> seen, req |-> req, via |-> via]),
               more_content, ka)

(* The error_handler a protocol is constructed with: ErrorHandler of the  *)
(* library, one whose response() raises, and one whose response carries a *)
(* status that ALL_STATUS_CODES does not have, for which send raises      *)
(* KeyError before it writes                                              *)
ErrorHandlers == {"response", "raise", "unknown_status"}

(* write_error that leaves the transport open *)
write_error_open(p, exception, req, via) ==
    LET response == error_handler_response(p.message, exception)
        p1 == [p EXCEPT !.errors = Append(@, status_code(exception))]
    IN  IF p.error_handler = "response"
        THEN send(p1, get_message(response, FALSE), req, via)
        ELSE p1

RECURSIVE write_error(_, _, _, _)

(* HttpProtocol.bail_out: with from_error, or on a closing transport, it *)
(* only logs                                                             *)
bail_out(p, message, from_error, req, via) ==
    IF from_error \/ p.transport.closing THEN p
    ELSE write_error(p, ServerError(message), req, via)

(* HttpProtocol.write_error; req and via as in send.  errors records the  *)
(* status of every exception it was called with.  An exception of the     *)
(* error handler or of send goes to bail_out(from_error=True); the        *)
(* RuntimeError of a write on a lost transport is logged; the finally     *)
(* block closes the transport.                                            *)
write_error(p, exception, req, via) ==
    LET response == error_handler_response(p.message, exception)
        p1 == [p EXCEPT !.errors = Append(@, status_code(exception))]
    IN  IF p.error_handler = "response"
        THEN transport_close(send(p1, get_message(response, FALSE), req, via))
        ELSE transport_close(bail_out(p1, <<>>, TRUE, req, via))

----------------------------------------------------------------------------
(* Bytes a client sends, one token per byte *)

RequestLines == {"GET / HTTP/1.1", "GET / HTTP/1.0"}
HeaderLines == {"X-Header: v", "Content-Length: 1", "Content-Length: 2",
                "CONTENT-LENGTH: big",
                "Upgrade: websocket", "Sec-WebSocket-Key: k"}
BodyBytes == {"byte", "byte2"}
Tokens == RequestLines \cup HeaderLines \cup BodyBytes \cup {"CRLF", "malformed"}

HeaderName(tok) ==
    CASE tok = "X-Header: v" -> "X-Header"
      [] tok = "Content-Length: 1" -> "Content-Length"
      [] tok = "Content-Length: 2" -> "Content-Length"
      [] tok = "CONTENT-LENGTH: big" -> "CONTENT-LENGTH"
      [] tok = "Upgrade: websocket" -> "Upgrade"
      [] tok = "Sec-WebSocket-Key: k" -> "Sec-WebSocket-Key"

(* the header value; a Content-Length value is given as the integer int(value) yields *)
HeaderValue(tok) ==
    CASE tok = "X-Header: v" -> "v"
      [] tok = "Content-Length: 1" -> "1"
      [] tok = "Content-Length: 2" -> "2"
      [] tok = "CONTENT-LENGTH: big" -> "big"
      [] tok = "Upgrade: websocket" -> "websocket"
      [] tok = "Sec-WebSocket-Key: k" -> "k"

int(value) ==
    CASE value = "1" -> 1
      [] value = "2" -> 2
      [] value = "big" -> request_max_size + 1

lower(name) ==
    CASE name = "X-Header" -> "x-header"
      [] name = "Content-Length" -> "content-length"
      [] name = "CONTENT-LENGTH" -> "content-length"
      [] name = "Upgrade" -> "upgrade"
      [] name = "Connection" -> "connection"
      [] name = "Sec-WebSocket-Key" -> "sec-websocket-key"
      [] OTHER -> name

----------------------------------------------------------------------------
(* Parser callbacks of HttpProtocol *)

get_request_body_chunk(content, closed, more_content) ==
    [content |-> content, closed |-> closed, more_content |-> more_content]

on_url(p, url) == [p EXCEPT !.url = Some(url)]

(* on_header; raised: the callback ended with an exception *)
on_header(p, name, value) ==
    LET lname == lower(name)
        p1 == IF lname = "content-length" /\ int(value) > request_max_size
              THEN write_error(p, PayloadTooLarge(PayloadTooLargeMsg), p.rx_req, "on_header")
              ELSE p
        p2 == IF lname = "upgrade" THEN [p1 EXCEPT !._is_upgrade = TRUE] ELSE p1
    IN  IF p2.headers = None
        THEN [p |-> p2, raised |-> TRUE]
        ELSE [p |-> [p2 EXCEPT !.headers = Some(Append(Val(@), <<lname, value>>)),
                               !.rxheaders = Append(@, <<name, value>>)],
              raised |-> FALSE]

(* the task created for request_handler(message, channels), with its body channel *)
(* pc: the position of Mach9.asgi_handler; request: the Request it builds;  *)
(* invoked: what the route handler found when it was called; raised,       *)
(* handled, result, sent: the condition raised, the one given to the error *)
(* handler, what that returned and the messages given to the reply channel; *)
(* rxheaders: the headers of the request as the parser gave them to         *)
(* on_header                                                                *)
NewHandlerTask(req) ==
    [req |-> req, state |-> "running", replied |-> "none",
     nsent |-> 0, queue |-> <<>>, produced |-> <<>>, received |-> <<>>, dropped |-> <<>>,
     message |-> None, pc |-> "start", is_stream |-> None,
     request |-> [stream |-> None, body |-> <<>>],
     invoked |-> None, response |-> None, raised |-> None, handled |-> None,
     result |-> None, fallback |-> None, sent |-> <<>>, rxheaders |-> <<>>]

(* on_headers_complete that keeps the channels and the task of the request before *)
on_headers_complete_reuse(p) ==
    IF p._is_upgrade THEN [p |-> p, raised |-> FALSE]
    ELSE IF p.parser = None THEN [p |-> p, raised |-> TRUE]
    ELSE IF p.handlers = <<>>
         THEN [p |-> [p EXCEPT !.message = Some([req |-> p.cur_req, url |-> p.url,
                                                 headers |-> p.headers]),
                               !.body_channel = Some(1),
                               !.handlers = <<NewHandlerTask(p.cur_req)>>,
                               !._request_handler_task = Some(1)],
               raised |-> FALSE]
         ELSE [p |-> [p EXCEPT !.message = Some([req |-> p.cur_req, url |-> p.url,
                                                 headers |-> p.headers]),
                               !.body_channel = Some(Len(p.handlers)),
                               !._request_handler_task = Some(Len(p.handlers))],
               raised |-> FALSE]

on_headers_complete(p) ==
    IF p._is_upgrade THEN [p |-> p, raised |-> FALSE]
    ELSE IF p.parser = None THEN [p |-> p, raised |-> TRUE]
    ELSE LET k == Len(p.handlers) + 1
             message == Some([req |-> p.cur_req, url |-> p.url, headers |-> p.headers])
         IN  [p |-> [p EXCEPT !.message = message,
                              !.body_channel = Some(k),
                              !.handlers = Append(@, [NewHandlerTask(p.cur_req)
                                                        EXCEPT !.message = message,
                                                               !.rxheaders = p.rxheaders]),
                              !._request_handler_task = Some(k)],
              raised |-> FALSE]

(* loop.create_task(self.body_channel.send(body_chunk)) *)
create_stream_task(p, body_chunk) ==
    LET ch == Val(p.body_channel)
    IN  [p EXCEPT !.puts = Append(@, [id |-> p.nput + 1, ch |-> ch, chunk |-> body_chunk]),
                  !.nput = @ + 1,
                  !._request_stream_task = Some(p.nput + 1),
                  !.handlers[ch].produced = Append(@, body_chunk)]

on_body(p, body) ==
    IF p._is_upgrade THEN [p |-> p, raised |-> FALSE]
    ELSE IF p.body_channel = None THEN [p |-> p, raised |-> TRUE]
    ELSE [p |-> create_stream_task(p, get_request_body_chunk(body, FALSE, TRUE)),
          raised |-> FALSE]

on_message_complete(p) ==
    IF p._is_upgrade THEN [p |-> p, raised |-> FALSE]
    ELSE IF p.body_channel = None THEN [p |-> p, raised |-> TRUE]
    ELSE [p |-> create_stream_task(p, get_request_body_chunk(<<>>, FALSE, FALSE)),
          raised |-> FALSE]

----------------------------------------------------------------------------
(* HttpRequestParser (httptools): the callbacks made for a token sequence. *)
(* st: start (between messages), headers, body, dead (after a message that *)
(* does not keep the connection alive); ka: should_keep_alive(); clen:     *)
(* body bytes still expected; cur: the header not yet reported.            *)

HttpRequestParser ==
    [st |-> "start", ka |-> FALSE, clen |-> 0, upgrade |-> FALSE, cur |-> None]

(* the protocol's parser attribute refers to the parser object being fed *)
sync(p, ps) == IF p.parser = None THEN p ELSE [p EXCEPT !.parser = Some(ps)]

Min(a, b) == IF a < b THEN a ELSE b

maybe_call_on_header(p, ps) ==
    IF ps.cur = None THEN [p |-> p, raised |-> FALSE]
    ELSE on_header(sync(p, [ps EXCEPT !.cur = None]), Val(ps.cur)[1], Val(ps.cur)[2])

(* the parser begins a message: the connection is on its next request, and *)
(* the bytes that follow are that request's until the message is complete  *)
on_message_begin(p) ==
    [p EXCEPT !.reqno = @ + 1, !.cur_req = p.reqno + 1, !.rx_req = p.reqno + 1,
              !.rxheaders = <<>>]

AfterMessage(ps) ==
    [ps EXCEPT !.st = IF ps.ka THEN "start" ELSE "dead", !.clen = 0, !.cur = None]

(* the parser has the whole message *)
message_done(p, ps) == [sync(p, AfterMessage(ps)) EXCEPT !.rx_req = 0]

RECURSIVE feed_data(_, _, _)
feed_data(p, ps, data) ==
    IF data = <<>> THEN [p |-> sync(p, ps), res |-> "ok"]
    ELSE
    LET tok == Head(data)
        rest == Tail(data)
        error == [p |-> [sync(p, ps) EXCEPT !.rejected = TRUE], res |-> "error"]
    IN
    CASE ps.st = "start" /\ tok = "CRLF" -> feed_data(p, ps, rest)
      [] ps.st = "start" ->
           IF tok \in RequestLines
           THEN LET ps1 == [ps EXCEPT !.st = "headers", !.ka = (tok = "GET / HTTP/1.1"),
                                      !.clen = 0, !.upgrade = FALSE, !.cur = None]
                IN  feed_data(on_url(on_message_begin(sync(p, ps1)), "/"), ps1, rest)
           ELSE error
      [] ps.st = "headers" /\ tok \in HeaderLines ->
           LET r == maybe_call_on_header(p, ps)
               ps1 == [ps EXCEPT
                         !.cur = Some(<<HeaderName(tok), HeaderValue(tok)>>),
                         !.clen = IF lower(HeaderName(tok)) = "content-length"
                                  THEN int(HeaderValue(tok)) ELSE @,
                         !.upgrade = @ \/ lower(HeaderName(tok)) = "upgrade"]
           IN  IF r.raised THEN [p |-> r.p, res |-> "callback_error"]
               ELSE feed_data(r.p, ps1, rest)
      [] ps.st = "headers" /\ tok = "CRLF" ->
           LET r1 == maybe_call_on_header(p, ps)
               ps1 == [ps EXCEPT !.cur = None]
               r2 == on_headers_complete(sync(r1.p, ps1))
               r3 == on_message_complete(r2.p)
           IN  IF r1.raised THEN [p |-> r1.p, res |-> "callback_error"]
               ELSE IF r2.raised THEN [p |-> r2.p, res |-> "callback_error"]
               ELSE IF ps.upgrade
                    THEN IF r3.raised THEN [p |-> r3.p, res |-> "callback_error"]
                         ELSE [p |-> message_done(r3.p, ps1), res |-> "upgrade"]
               ELSE IF ps.clen > 0
                    THEN feed_data(r2.p, [ps1 EXCEPT !.st = "body"], rest)
               ELSE IF r3.raised THEN [p |-> r3.p, res |-> "callback_error"]
                    ELSE feed_data(message_done(r3.p, ps1), AfterMessage(ps1), rest)
      [] ps.st = "body" ->
           LET k == Min(ps.clen, Len(data))
               r1 == on_body(p, SubSeq(data, 1, k))
               ps1 == [ps EXCEPT !.clen = @ - k]
               r2 == on_message_complete(r1.p)
           IN  IF r1.raised THEN [p |-> r1.p, res |-> "callback_error"]
               ELSE IF ps1.clen > 0 THEN [p |-> sync(r1.p, ps1), res |-> "ok"]
               ELSE IF r2.raised THEN [p |-> r2.p, res |-> "callback_error"]
                    ELSE feed_data(message_done(r2.p, ps1), AfterMessage(ps1),
                                   SubSeq(data, k + 1, Len(data)))
      [] OTHER -> error

----------------------------------------------------------------------------
(* mach9/websocket.py *)

InvalidHandshakeMsg ==
    <<"I","n","v","a","l","i","d"," ","H","a","n","d","s","h","a","k","e">>

(* websockets.handshake.check_request: the request carries the handshake key *)
check_request(headers) ==
    \E i \in 1..Len(headers) : headers[i][1] = "sec-websocket-key"

(* WebSocketProtocol: order, the messages built and given to request_handler *)
(* tasks, the ReplyChannel's _accept and what was sent on it, whether the    *)
(* read task runs, and whether cleanup has run                               *)
WebSocketProtocol ==
    [order |-> None, messages |-> <<>>, accept |-> FALSE, reading |-> FALSE,
     cleaned |-> FALSE, sent |-> <<>>]

get_connect_message(ws) ==
    [ws EXCEPT !.order = Some(0),
               !.messages = Append(@, [channel |-> "websocket.connect", order |-> 0])]

(* get_receive_message that leaves the order as it is *)
get_receive_message_same_order(ws, data) ==
    [ws EXCEPT !.messages = Append(@, [channel |-> "websocket.receive",
                                       order |-> Val(ws.order)])]

get_receive_message(ws, data) ==
    LET order == Val(ws.order) + 1
    IN  [ws EXCEPT !.order = Some(order),
                   !.messages = Append(@, [channel |-> "websocket.receive", order |-> order])]

get_disconnect_message(ws, code) ==
    LET order == Val(ws.order) + 1
    IN  [ws EXCEPT !.order = Some(order),
                   !.messages = Append(@, [channel |-> "websocket.disconnect",
                                           order |-> order])]

(* WebSocketProtocol.connection_made: the connect message is dispatched *)
ws_connection_made(ws) == get_connect_message(ws)

(* upgrade_to_websocket.  An exception that escapes it escapes data_received: *)
(* the loop then aborts the transport, discarding what is buffered.           *)
upgrade_to_websocket(p) ==
    LET p1 == IF check_request(Val(p.headers)) THEN p
              ELSE send(p, [status |-> Some(400),
                            headers |-> Some(<< <<"Content-Type", "text/plain">> >>),
                            content |-> InvalidHandshakeMsg,
                            more_content |-> FALSE], p.cur_req, "upgrade")
    IN  IF p1.parser = None
        THEN [p1 EXCEPT !.transport.closing = TRUE, !.transport.buffered = FALSE]
        ELSE [p1 EXCEPT !.transport.protocol = "websocket",
                        !.websocket = Some(ws_connection_made(WebSocketProtocol))]

----------------------------------------------------------------------------
(* Connection callbacks of HttpProtocol *)

connection_made(p) ==
    [p EXCEPT !.made = TRUE,
              !._timeout_handler = Some(current_time + request_timeout),
              !.transport = NewTransport,
              !._last_request_time = Some(current_time)]

connection_lost(p) ==
    [p EXCEPT !._timeout_handler = None]

(* task.cancel() on the latest body-forwarding task and the latest handler task *)
cancel_stream_task(p) ==
    IF p._request_stream_task = None THEN p
    ELSE LET id == Val(p._request_stream_task)
             hit == SelectSeq(p.puts, LAMBDA t : t.id = id)
         IN  IF hit = <<>> THEN p
             ELSE [p EXCEPT !.puts = SelectSeq(@, LAMBDA t : t.id # id),
                            !.handlers[hit[1].ch].dropped = Append(@, hit[1].chunk)]

cancel_handler_task(p) ==
    IF p._request_handler_task = None THEN p
    ELSE LET k == Val(p._request_handler_task)
         IN  IF p.handlers[k].state = "running"
             THEN [p EXCEPT !.handlers[k].state = "cancelled"]
             ELSE p

connection_timeout(p) ==
    LET time_elapsed == current_time - Val(p._last_request_time)
    IN  IF time_elapsed < request_timeout
        THEN [p EXCEPT !._timeout_handler = Some(current_time + (request_timeout - time_elapsed))]
        ELSE write_error(cancel_handler_task(cancel_stream_task(
                             [p EXCEPT !._timeout_handler = None])),
                         RequestTimeout(RequestTimeoutMsg), p.cur_req, "connection_timeout")

data_received(p, data) ==
    LET p1 == [p EXCEPT !._total_request_size = @ + Len(data)]
        p2 == IF p1._total_request_size > request_max_size
              THEN write_error(p1, PayloadTooLarge(PayloadTooLargeMsg), p1.rx_req,
                               "data_received")
              ELSE p1
        p3 == IF p2.parser = None
              THEN [p2 EXCEPT !.headers = Some(<<>>), !.parser = Some(HttpRequestParser)]
              ELSE p2
        r == feed_data(p3, Val(p3.parser), data)
    IN  CASE r.res = "upgrade" -> upgrade_to_websocket(r.p)
          [] r.res = "error" -> write_error(r.p, InvalidUsage(BadRequestMsg), r.p.rx_req,
                                            "parser_error")
          [] r.res = "callback_error" -> write_error(r.p, InvalidUsage(BadRequestMsg),
                                                     r.p.rx_req, "callback_error")
          [] OTHER -> r.p

(* close_if_idle that closes whether or not a request is in progress *)
close_if_idle_always(p) ==
    [p |-> transport_close(p), result |-> TRUE]

(* close_if_idle: the protocol afterwards and the value returned *)
close_if_idle(p) ==
    IF p.parser = None THEN [p |-> transport_close(p), result |-> TRUE]
    ELSE [p |-> p, result |-> FALSE]

----------------------------------------------------------------------------
(* The request pipeline (request_handler) as the protocol sees it: a task  *)
(* that receives from its body channel and sends on its reply channel.     *)

OKBody == <<"O","K">>
ContentType == <<"Content-Type", "text/plain; charset=utf-8">>

FirstMessages ==
    { [status |-> Some(200), headers |-> Some(<<ContentType>>),
       content |-> OKBody, more_content |-> FALSE],
      [status |-> Some(200), headers |-> Some(<<ContentType, <<"Connection", "close">> >>),
       content |-> OKBody, more_content |-> FALSE],
      [status |-> Some(200), headers |-> Some(<<ContentType>>),
       content |-> <<>>, more_content |-> TRUE] }

ChunkMessages ==
    { get_response_chunk(<<"f">>, TRUE),
      get_response_chunk(<<>>, TRUE),
      get_response_chunk(<<>>, FALSE) }

----------------------------------------------------------------------------
(* Mach9.asgi_handler, the request pipeline of the application *)

ErrorWhileHandlingErrorMsg ==
    <<"A","n"," ","e","r","r","o","r"," ","o","c","c","u","r","r","e","d",
      " ","w","h","i","l","e"," ","h","a","n","d","l","i","n","g"," ","a",
      "n"," ","e","r","r","o","r">>
DebugErrorPrefix ==
    <<"E","r","r","o","r"," ","w","h","i","l","e"," ","h","a","n","d","l",
      "i","n","g"," ","e","r","r","o","r",":"," ">>
NoGetMessageMsg ==
    <<"r","e","s","p","o","n","s","e"," ","d","o","e","s"," ","n","o","t",
      " ","h","a","v","e"," ","g","e","t","_","m","e","s","s","a","g","e",
      "(",")">>
HandlerFailedMsg ==
    <<"f","a","i","l","e","d">>

(* HTTPResponse(body): status defaults to 200, content_type to text/plain *)
HTTPResponse(body) ==
    [status |-> 200, body |-> body,
     headers |-> << <<"Content-Type", "text/plain">> >>]

(* text(body): HTTPResponse(body, content_type='text/plain; charset=utf-8') *)
text(body) ==
    [status |-> 200, body |-> body, headers |-> <<ContentType>>]

RECURSIVE Concat(_)
Concat(chunks) ==
    IF chunks = <<>> THEN <<>> ELSE Head(chunks).content \o Concat(Tail(chunks))

(* what the route handler sees when it is called *)
Invocation(h) ==
    [is_stream |-> h.is_stream, stream |-> h.request.stream, body |-> h.request.body,
     consumed |-> Len(h.received)]

(* Router.is_stream_handler: the handler matched for the request declared *)
(* streaming                                                              *)
is_stream_handler(route) == route = "stream"

(* asgi_handler up to the call of the route handler.  route: the request   *)
(* middleware answers itself, request middleware or router.get raise, or   *)
(* the router finds a handler that declared streaming or one that did not  *)
asgi_route(h, k, route) ==
    CASE route = "middleware" ->
           [h EXCEPT !.pc = "respond", !.response = Some(text(OKBody))]
      [] route = "raise" ->
           [h EXCEPT !.pc = "respond", !.raised = Some(ServerError(HandlerFailedMsg))]
      [] route \in {"stream", "body"} /\ is_stream_handler(route) ->
           LET h1 == [h EXCEPT !.is_stream = Some(TRUE), !.request.stream = Some(k)]
           IN  [h1 EXCEPT !.pc = "handler", !.invoked = Some(Invocation(h1))]
      [] route \in {"stream", "body"} /\ ~is_stream_handler(route) ->
           [h EXCEPT !.is_stream = Some(FALSE), !.pc = "get_body",
                     !.request.body = <<>>]

(* one turn of the loop of get_body that drops the content of the chunk *)
get_body_skip(h) ==
    LET message_chunk == Head(h.queue)
        h1 == [h EXCEPT !.queue = Tail(@), !.received = Append(@, message_chunk)]
    IN  IF message_chunk.more_content THEN h1
        ELSE [h1 EXCEPT !.pc = "handler", !.invoked = Some(Invocation(h1))]

(* one turn of the loop of Mach9.get_body; after the last one the route *)
(* handler is called                                                    *)
get_body(h) ==
    LET message_chunk == Head(h.queue)
        h1 == [h EXCEPT !.queue = Tail(@), !.received = Append(@, message_chunk),
                        !.request.body = @ \o message_chunk.content]
    IN  IF message_chunk.more_content THEN h1
        ELSE [h1 EXCEPT !.pc = "handler", !.invoked = Some(Invocation(h1))]

(* the route handler echoes the body it has *)
EchoBody(h) ==
    IF h.is_stream = Some(TRUE) THEN Concat(h.received) ELSE h.request.body

(* asgi_handler that answers a raised condition with its fallback body *)
(* without calling the error handler                                   *)
asgi_respond_unhandled(h, outcome, error, middleware, debug) ==
    LET raised == IF h.pc = "respond" THEN h.raised
                  ELSE IF outcome = "response" THEN None
                       ELSE Some(ServerError(HandlerFailedMsg))
        response == IF raised = None
                    THEN (IF h.pc = "respond" THEN Val(h.response) ELSE text(EchoBody(h)))
                    ELSE HTTPResponse(ErrorWhileHandlingErrorMsg)
    IN  [h EXCEPT !.pc = "done", !.raised = raised,
                  !.response = Some(response),
                  !.sent = Append(@, get_message(response, FALSE))]

(* asgi_handler from the return of the route handler to the message it      *)
(* sends.  outcome: the handler returns a response, raises, or returns an   *)
(* object without get_message; error: error_handler.response returns or     *)
(* raises; middleware: the response middleware leaves the response, returns *)
(* another or raises; debug: the debug flag of the application.             *)
asgi_respond(h, outcome, error, middleware, debug) ==
    LET raised == IF h.pc = "respond" THEN h.raised
                  ELSE CASE outcome = "response" -> None
                         [] outcome = "raise" -> Some(ServerError(HandlerFailedMsg))
                         [] outcome = "no_get_message" -> Some(ServerError(NoGetMessageMsg))
        response == IF h.pc = "respond" THEN h.response
                    ELSE IF outcome = "response" THEN Some(text(EchoBody(h))) ELSE None
        failed == raised # None /\ error = "raise"
        result == IF raised # None /\ error = "response"
                  THEN Some(error_handler_response(h.request, Val(raised))) ELSE None
        fallback == IF failed
                    THEN Some(IF debug
                              THEN HTTPResponse(DebugErrorPrefix \o HandlerFailedMsg)
                              ELSE HTTPResponse(ErrorWhileHandlingErrorMsg))
                    ELSE None
        response1 == IF raised = None THEN Val(response)
                     ELSE IF failed THEN Val(fallback) ELSE Val(result)
        response2 == IF middleware = "replace" THEN text(OKBody) ELSE response1
    IN  [h EXCEPT !.pc = "done", !.raised = raised, !.handled = raised,
                  !.response = Some(response2), !.result = result,
                  !.fallback = fallback,
                  !.sent = Append(@, get_message(response2, FALSE))]

(* task.cancel() throws CancelledError into asgi_handler at the await it is *)
(* suspended in.  caught: CancelledError is an Exception (Python 3.6 and    *)
(* 3.7) and `except Exception` takes it for a failed handler; otherwise it  *)
(* passes through the finally block and ends the task.                      *)
CancelledError == [cls |-> "CancelledError", msg |-> <<>>]

asgi_cancelled(h, caught) ==
    IF caught
    THEN asgi_respond([h EXCEPT !.pc = "respond", !.raised = Some(CancelledError)],
                      "raise", "response", "none", FALSE)
    ELSE [h EXCEPT !.pc = "done", !.raised = Some(CancelledError)]

----------------------------------------------------------------------------
(* The event loop *)

(* The loop runs in run_forever, in run_until_complete(wait_closed()) and in *)
(* the drain poll                                                           *)
LoopRunning == server \in {"run_forever", "wait_closed", "drain"}
(* the listening server exists from create_server to http_server.close() *)
Accepting == server \in {"after_start", "run_forever", "before_stop", "close"}

(* The body-forwarding tasks are scheduled with call_soon: the loop runs them  *)
(* before it polls for I/O again and before anything else they could interact *)
(* with, except a timer callback that is already due.                         *)
NoReadyTasks == \A c \in Conns : conn[c].puts = <<>>

IsBodyByte(tok) == tok \in BodyBytes

(* the clients fill request bodies with plain bytes *)
BodyIsBytes(p) ==
    \A k \in 1..Len(p.handlers) : \A i \in 1..Len(p.handlers[k].produced) :
        \A j \in 1..Len(p.handlers[k].produced[i].content) :
            p.handlers[k].produced[i].content[j] \in BodyBytes

HeadersWithin(p) ==
    p.parser # None =>
        Len(Val(p.headers)) + (IF Val(p.parser).cur # None THEN 1 ELSE 0) <= MaxHeaders

(* what one data_received call of a pipelining HTTP/1.1 client holds: any *)
(* bytes, with bodies of at most one byte                                 *)
Inputs ==
    UNION { [1..n -> Tokens \ {"GET / HTTP/1.0", "Content-Length: 2", "byte2"}] :
              n \in 1..MaxData }

Requests ==
    { <<"GET / HTTP/1.1", "CRLF">>,
      <<"GET / HTTP/1.0", "CRLF">>,
      <<"GET / HTTP/1.1">>,
      <<"CRLF">>,
      <<"GET / HTTP/1.1", "Content-Length: 1", "CRLF", "byte">>,
      <<"GET / HTTP/1.1", "Content-Length: 1", "CRLF">>,
      <<"byte">>,
      <<"GET / HTTP/1.1", "Upgrade: websocket", "Sec-WebSocket-Key: k", "CRLF">>,
      <<"GET / HTTP/1.0", "Upgrade: websocket", "CRLF">> }

(* what the clients of the request pipeline send: a request without a body *)
(* and a request with a body of two bytes, in every fragmentation          *)
BodyRequests ==
    { <<"GET / HTTP/1.1", "CRLF">>,
      <<"GET / HTTP/1.1", "Content-Length: 2", "CRLF", "byte", "byte2">>,
      <<"GET / HTTP/1.1", "Content-Length: 2", "CRLF", "byte">>,
      <<"GET / HTTP/1.1", "Content-Length: 2", "CRLF">>,
      <<"byte", "byte2">>,
      <<"byte2">> }

Init ==
    /\ cfg_keep_alive \in BOOLEAN
    /\ conn = [c \in 1..NConn |-> HttpProtocol(cfg_keep_alive)]
    /\ connections = {}
    /\ signal_stopped = FALSE
    /\ current_time = 0
    /\ sent = 0
    /\ server = "run_forever"
    /\ call = NoCall
    /\ parent = NoParent
    /\ app = NoApp

ConnectionMade(c) ==
    /\ LoopRunning /\ Accepting
    /\ ~conn[c].made
    /\ conn' = [conn EXCEPT ![c] = connection_made(@)]
    /\ connections' = connections \cup {c}
    /\ UNCHANGED <<signal_stopped, current_time, cfg_keep_alive, call, parent, app, sent, server>>

DataReceived(c, data) ==
    /\ sent + Len(data) <= MaxBytes
    /\ LoopRunning /\ NoReadyTasks
    /\ conn[c].made
    /\ conn[c].transport.protocol = "http"
    /\ ~conn[c].transport.closing /\ ~conn[c].transport.lost
    /\ conn' = [conn EXCEPT ![c] = [data_received(@, data) EXCEPT
                                      !.rxbody = @ \o SelectSeq(data, IsBodyByte)]]
    /\ BodyIsBytes(conn'[c])
    /\ HeadersWithin(conn'[c])
    /\ sent' = sent + Len(data)
    /\ UNCHANGED <<connections, signal_stopped, current_time, cfg_keep_alive, call, parent, app, server>>

(* a client that does not pipeline: it sends the bytes of a request when the *)
(* connection is idle or the request is still incomplete                     *)
ClientRequest(c, data) ==
    /\ conn[c].parser = None \/ conn[c].rx_req # 0
    /\ DataReceived(c, data)

(* BodyChannel.send with a queue that hands out the newest chunk first *)
BodyChannelSendNewestFirst(c) ==
    /\ LoopRunning
    /\ conn[c].puts # <<>>
    /\ LET t == Head(conn[c].puts)
       IN  conn' = [conn EXCEPT ![c].puts = Tail(@),
                                ![c].handlers[t.ch].queue = <<t.chunk>> \o @]
    /\ UNCHANGED <<connections, signal_stopped, current_time, cfg_keep_alive, call, parent, app, sent, server>>

(* the loop runs the oldest body-forwarding task: BodyChannel.send, Queue.put *)
BodyChannelSend(c) ==
    /\ LoopRunning
    /\ conn[c].puts # <<>>
    /\ LET t == Head(conn[c].puts)
       IN  conn' = [conn EXCEPT ![c].puts = Tail(@),
                                ![c].handlers[t.ch].queue = Append(@, t.chunk)]
    /\ UNCHANGED <<connections, signal_stopped, current_time, cfg_keep_alive, call, parent, app, sent, server>>

(* the handler task awaits BodyChannel.receive: it gets the oldest chunk *)
BodyChannelReceive(c, k) ==
    /\ LoopRunning /\ NoReadyTasks
    /\ k \in 1..Len(conn[c].handlers)
    /\ conn[c].handlers[k].state = "running"
    /\ conn[c].handlers[k].replied = "none"
    /\ conn[c].handlers[k].queue # <<>>
    /\ conn' = [conn EXCEPT
                  ![c].handlers[k].queue = Tail(@),
                  ![c].handlers[k].received = Append(@, Head(conn[c].handlers[k].queue))]
    /\ UNCHANGED <<connections, signal_stopped, current_time, cfg_keep_alive, call, parent, app, sent, server>>

RECURSIVE SumSent(_)
SumSent(hs) == IF hs = <<>> THEN 0 ELSE Head(hs).nsent + SumSent(Tail(hs))

ReplySends(p) == SumSent(p.handlers)

(* the handler task awaits ReplyChannel.send(message).  A handler that replies *)
(* before it has the whole body is a streaming handler; any other handler is   *)
(* run after get_body.  RuntimeError from a lost transport ends the task.      *)
ReplyChannelSend(c, k, message) ==
    /\ LoopRunning /\ NoReadyTasks
    /\ k \in 1..Len(conn[c].handlers)
    /\ conn[c].handlers[k].state = "running"
    /\ ReplySends(conn[c]) < MaxSends
    /\ \/ conn[c].handlers[k].replied = "none" /\ ~is_response_chunk(message)
       \/ conn[c].handlers[k].replied = "first" /\ is_response_chunk(message)
    /\ LET p == send(conn[c], message, conn[c].handlers[k].req, "reply")
           ended == ~message.more_content \/ conn[c].transport.lost
       IN  conn' = [conn EXCEPT ![c] =
                      [p EXCEPT !.handlers[k].nsent = @ + 1,
                                !.handlers[k].sent = Append(@, message),
                                !.handlers[k].replied =
                                    IF message.more_content THEN "first" ELSE "terminal",
                                !.handlers[k].state = IF ended THEN "done" ELSE "running"]]
    /\ UNCHANGED <<connections, signal_stopped, current_time, cfg_keep_alive, call, parent, app, sent, server>>

(* a request handler calls ReplyChannel.send(message) once more on the *)
(* channel it has already sent its terminal message on                 *)
ReplyChannelSendAgain(c, k, message) ==
    /\ LoopRunning /\ NoReadyTasks
    /\ k \in 1..Len(conn[c].handlers)
    /\ conn[c].handlers[k].replied = "terminal"
    /\ ReplySends(conn[c]) < MaxSends
    /\ message \in FirstMessages \cup ChunkMessages
    /\ LET p == send(conn[c], message, conn[c].handlers[k].req, "reply")
       IN  conn' = [conn EXCEPT ![c] = [p EXCEPT !.handlers[k].nsent = @ + 1,
                                                 !.handlers[k].sent = Append(@, message)]]
    /\ UNCHANGED <<connections, signal_stopped, current_time, cfg_keep_alive, call, parent, app, sent, server>>

(* the handler task runs asgi_handler up to the call of the route handler *)
AsgiRoute(c, k, route) ==
    /\ LoopRunning /\ NoReadyTasks
    /\ k \in 1..Len(conn[c].handlers)
    /\ conn[c].handlers[k].state = "running"
    /\ conn[c].handlers[k].pc = "start"
    /\ conn' = [conn EXCEPT ![c].handlers[k] = asgi_route(@, k, route)]
    /\ UNCHANGED <<connections, signal_stopped, current_time, cfg_keep_alive, call, parent, app, sent, server>>

(* the handler task is in get_body and a chunk is on its body channel *)
GetBody(c, k) ==
    /\ LoopRunning /\ NoReadyTasks
    /\ k \in 1..Len(conn[c].handlers)
    /\ conn[c].handlers[k].state = "running"
    /\ conn[c].handlers[k].pc = "get_body"
    /\ conn[c].handlers[k].queue # <<>>
    /\ conn' = [conn EXCEPT ![c].handlers[k] = get_body(@)]
    /\ UNCHANGED <<connections, signal_stopped, current_time, cfg_keep_alive, call, parent, app, sent, server>>

(* a route handler that declared streaming awaits request.stream.receive() *)
StreamReceive(c, k) ==
    /\ LoopRunning /\ NoReadyTasks
    /\ k \in 1..Len(conn[c].handlers)
    /\ conn[c].handlers[k].state = "running"
    /\ conn[c].handlers[k].pc = "handler"
    /\ conn[c].handlers[k].is_stream = Some(TRUE)
    /\ conn[c].handlers[k].queue # <<>>
    /\ \A i \in 1..Len(conn[c].handlers[k].received) :
          conn[c].handlers[k].received[i].more_content
    /\ conn' = [conn EXCEPT
                  ![c].handlers[k].queue = Tail(@),
                  ![c].handlers[k].received = Append(@, Head(conn[c].handlers[k].queue))]
    /\ UNCHANGED <<connections, signal_stopped, current_time, cfg_keep_alive, call, parent, app, sent, server>>

(* the route handler returns or raises; asgi_handler builds its message and *)
(* awaits channels['reply'].send(_message)                                  *)
AsgiRespond(c, k, outcome, error, middleware, debug) ==
    /\ LoopRunning /\ NoReadyTasks
    /\ k \in 1..Len(conn[c].handlers)
    /\ conn[c].handlers[k].state = "running"
    /\ conn[c].handlers[k].pc \in {"handler", "respond"}
    /\ LET h == asgi_respond(conn[c].handlers[k], outcome, error, middleware, debug)
           p == send(conn[c], h.sent[Len(h.sent)], h.req, "reply")
       IN  conn' = [conn EXCEPT ![c] =
                      [p EXCEPT !.handlers[k] =
                          [h EXCEPT !.nsent = @ + 1, !.replied = "terminal",
                                    !.state = "done"]]]
    /\ UNCHANGED <<connections, signal_stopped, current_time, cfg_keep_alive, call, parent, app, sent, server>>

(* the loop runs a handler task that was cancelled while it awaited a body *)
(* chunk, in get_body or in a streaming route handler                     *)
AsgiCancelled(c, k, caught) ==
    /\ LoopRunning /\ NoReadyTasks
    /\ k \in 1..Len(conn[c].handlers)
    /\ conn[c].handlers[k].state = "cancelled"
    /\ \/ conn[c].handlers[k].pc = "get_body"
       \/ conn[c].handlers[k].pc = "handler" /\ conn[c].handlers[k].is_stream = Some(TRUE)
    /\ caught => ReplySends(conn[c]) < MaxSends
    /\ LET h == asgi_cancelled(conn[c].handlers[k], caught)
           p == IF caught THEN send(conn[c], h.sent[Len(h.sent)], h.req, "reply")
                ELSE conn[c]
       IN  conn' = [conn EXCEPT ![c] =
                      [p EXCEPT !.handlers[k] =
                          [h EXCEPT !.nsent = IF caught THEN @ + 1 ELSE @,
                                    !.replied = IF caught THEN "terminal" ELSE @,
                                    !.state = "done"]]]
    /\ UNCHANGED <<connections, signal_stopped, current_time, cfg_keep_alive, call, parent, app, sent, server>>

(* the loop has written the transport's buffer to the socket; it matters once *)
(* close() has been called, which waits for the buffer to drain               *)
Flush(c) ==
    /\ LoopRunning /\ NoReadyTasks
    /\ conn[c].made /\ ~conn[c].transport.lost
    /\ conn[c].transport.closing
    /\ conn[c].transport.buffered
    /\ conn' = [conn EXCEPT ![c].transport.buffered = FALSE]
    /\ UNCHANGED <<connections, signal_stopped, current_time, cfg_keep_alive, call, parent, app, sent, server>>

(* the transport calls connection_lost on its current protocol *)
Lose(c) ==
    /\ conn' = [conn EXCEPT ![c] =
                  IF @.transport.protocol = "http"
                  THEN [connection_lost(@) EXCEPT !.transport.lost = TRUE,
                                                  !.transport.buffered = FALSE]
                  ELSE [@ EXCEPT !.transport.lost = TRUE, !.transport.buffered = FALSE]]
    /\ connections' = IF conn[c].transport.protocol = "http"
                      THEN connections \ {c} ELSE connections

(* a closed transport whose buffer is flushed is lost *)
ConnectionLost(c) ==
    /\ LoopRunning /\ NoReadyTasks
    /\ conn[c].made /\ ~conn[c].transport.lost
    /\ conn[c].transport.closing /\ ~conn[c].transport.buffered
    /\ Lose(c)
    /\ UNCHANGED <<signal_stopped, current_time, cfg_keep_alive, call, parent, app, sent, server>>

(* the client closes or resets the connection *)
ClientDisconnect(c) ==
    /\ LoopRunning /\ NoReadyTasks
    /\ conn[c].made /\ ~conn[c].transport.lost
    /\ ~conn[c].transport.closing
    /\ Lose(c)
    /\ UNCHANGED <<signal_stopped, current_time, cfg_keep_alive, call, parent, app, sent, server>>

(* a timer callback that cancels the tasks of every connection of the worker *)
ConnectionTimeoutOfAll(c) ==
    /\ LoopRunning
    /\ conn[c]._timeout_handler # None
    /\ Val(conn[c]._timeout_handler) <= current_time
    /\ conn' = [b \in Conns |->
                  IF b = c THEN connection_timeout(conn[b])
                  ELSE IF current_time - Val(conn[c]._last_request_time) < request_timeout
                       THEN conn[b]
                       ELSE cancel_handler_task(cancel_stream_task(conn[b]))]
    /\ UNCHANGED <<connections, signal_stopped, current_time, cfg_keep_alive, call, parent, app, sent, server>>

(* the timer armed with call_later fires *)
ConnectionTimeout(c) ==
    /\ LoopRunning
    /\ conn[c]._timeout_handler # None
    /\ Val(conn[c]._timeout_handler) <= current_time
    /\ conn' = [conn EXCEPT ![c] = connection_timeout(@)]
    /\ UNCHANGED <<connections, signal_stopped, current_time, cfg_keep_alive, call, parent, app, sent, server>>

TimerPending(c) == conn[c]._timeout_handler # None

(* timer.update_current_time: a second passes; timers that are due fire first. *)
(* The clock runs on past MaxTime only towards a pending timer.                *)
update_current_time ==
    /\ LoopRunning /\ NoReadyTasks
    /\ \A c \in Conns : TimerPending(c) => Val(conn[c]._timeout_handler) > current_time
    /\ current_time < MaxTime \/ \E c \in Conns : TimerPending(c)
    /\ current_time' = current_time + 1
    /\ UNCHANGED <<conn, connections, signal_stopped, cfg_keep_alive, call, parent, app, sent, server>>

----------------------------------------------------------------------------
(* Server.serve *)

(* trigger_events(before_start, loop) *)
BeforeStart ==
    /\ server = "before_start"
    /\ server' = "create_server"
    /\ UNCHANGED <<conn, connections, signal_stopped, current_time, cfg_keep_alive, call, parent, app, sent>>

(* loop.run_until_complete(server_coroutine): the listening server is created *)
CreateServer ==
    /\ server = "create_server"
    /\ server' = "after_start"
    /\ UNCHANGED <<conn, connections, signal_stopped, current_time, cfg_keep_alive, call, parent, app, sent>>

(* trigger_events(after_start, loop), then loop.run_forever() *)
AfterStart ==
    /\ server = "after_start"
    /\ server' = "run_forever"
    /\ UNCHANGED <<conn, connections, signal_stopped, current_time, cfg_keep_alive, call, parent, app, sent>>

(* SIGINT/SIGTERM or Server.stop ends run_forever; the finally block begins *)
Stop ==
    /\ server = "run_forever" /\ NoReadyTasks
    /\ server' = "before_stop"
    /\ UNCHANGED <<conn, connections, signal_stopped, current_time, cfg_keep_alive, call, parent, app, sent>>

(* trigger_events(before_stop, loop) *)
BeforeStop ==
    /\ server = "before_stop"
    /\ server' = "close"
    /\ UNCHANGED <<conn, connections, signal_stopped, current_time, cfg_keep_alive, call, parent, app, sent>>

(* http_server.close(); loop.run_until_complete(http_server.wait_closed()) *)
(* then runs the loop                                                      *)
CloseServer ==
    /\ server = "close"
    /\ server' = "wait_closed"
    /\ UNCHANGED <<conn, connections, signal_stopped, current_time, cfg_keep_alive, call, parent, app, sent>>

(* signal.stopped = True *)
SignalStopped ==
    /\ server = "wait_closed" /\ NoReadyTasks
    /\ signal_stopped' = TRUE
    /\ server' = "close_if_idle"
    /\ UNCHANGED <<conn, connections, current_time, cfg_keep_alive, call, parent, app, sent>>

(* for connection in connections: connection.close_if_idle() *)
CloseIfIdle ==
    /\ server = "close_if_idle"
    /\ conn' = [c \in Conns |-> IF c \in connections THEN close_if_idle(conn[c]).p
                                 ELSE conn[c]]
    /\ server' = "drain"
    /\ UNCHANGED <<connections, signal_stopped, current_time, cfg_keep_alive, call, parent, app, sent>>

(* a drain that does not wait for the live-connection set to empty *)
AfterStopWithoutDrain ==
    /\ server = "drain"
    /\ server' = "closed"
    /\ UNCHANGED <<conn, connections, signal_stopped, current_time, cfg_keep_alive, call, parent, app, sent>>

(* while connections: sleep(0.1) ends; the after_stop hooks run; loop.close() *)
AfterStop ==
    /\ server = "drain"
    /\ connections = {}
    /\ server' = "closed"
    /\ UNCHANGED <<conn, connections, signal_stopped, current_time, cfg_keep_alive, call, parent, app, sent>>

(* One second of a worker that is not told to stop: no timer falls due *)
----------------------------------------------------------------------------
(* Calls of the pure methods of HttpProtocol, on the header lists a response *)
(* message can carry                                                         *)

ResponseHeaders ==
    { <<name, value>> :
        name \in {"Connection", "__Connection", "connection",
                   "Content-Length", "_Content-Length", "foo"},
        value \in {"close", "__close", "1", "bar"} }

HeaderLists == UNION { [1..n -> ResponseHeaders] : n \in 0..MaxLines }

Contents == { [i \in 1..n |-> "x"] : n \in 0..MaxContent }

CallArgs ==
    { [fn |-> "check_headers", pc |-> "call", headers |-> headers, result |-> None] :
        headers \in HeaderLists }
    \cup
    [fn : {"make_header_content"}, pc : {"call"},
     headers : {None} \cup { Some(headers) : headers \in HeaderLists },
     content : Contents, more_content : BOOLEAN, result : {None}]

CallsInit ==
    /\ cfg_keep_alive = TRUE
    /\ conn = [c \in 1..NConn |-> HttpProtocol(cfg_keep_alive)]
    /\ connections = {}
    /\ signal_stopped = FALSE
    /\ current_time = 0
    /\ sent = 0
    /\ server = "run_forever"
    /\ parent = NoParent
    /\ app = NoApp
    /\ call \in CallArgs

CheckHeaders ==
    /\ call.fn = "check_headers" /\ call.pc = "call"
    /\ call' = [call EXCEPT !.pc = "return", !.result = Some(check_headers(call.headers))]
    /\ UNCHANGED <<conn, connections, signal_stopped, current_time, cfg_keep_alive, sent,
                   server, parent, app>>

(* send calls make_header_content with the result of check_headers on the *)
(* same headers                                                            *)
MakeHeaderContent ==
    /\ call.fn = "make_header_content" /\ call.pc = "call"
    /\ LET result_headers == IF call.headers # None THEN check_headers(Val(call.headers))
                              ELSE [connection_close |-> FALSE, content_length |-> FALSE]
       IN  call' = [call EXCEPT
                      !.pc = "return",
                      !.result = Some(make_header_content(call.headers, result_headers,
                                                          call.content, call.more_content))]
    /\ UNCHANGED <<conn, connections, signal_stopped, current_time, cfg_keep_alive, sent,
                   server, parent, app>>

CallsNext == CheckHeaders \/ MakeHeaderContent

Calls == CallsInit /\ [][CallsNext]_vars

----------------------------------------------------------------------------
(* Server.serve_multiple: the parent process, its listening socket and its  *)
(* worker processes.  A worker is a forked process running Server.serve: it *)
(* starts with the signal handlers of the parent and a copy of the list     *)
(* processes as it was at the fork, and it installs loop.stop as its own    *)
(* handler once its server listens.  Server.serve from signal to exit is    *)
(* one step here.                                                           *)

Workers == 1..NWorkers

NewProcess == [state |-> "unborn", pending |-> FALSE, killed |-> FALSE, reaped |-> FALSE]

MultipleInit ==
    /\ cfg_keep_alive = TRUE
    /\ conn = [c \in 1..NConn |-> HttpProtocol(cfg_keep_alive)]
    /\ connections = {}
    /\ signal_stopped = FALSE
    /\ current_time = 0
    /\ sent = 0
    /\ server = "run_forever"
    /\ call = NoCall
    /\ parent = [pc |-> "socket", sock |-> "none", processes |-> None, joined |-> 0,
                 signals |-> 0, forwarded |-> FALSE,
                 process |-> [w \in Workers |-> NewProcess]]
    /\ app = NoApp

Others == <<conn, connections, signal_stopped, current_time, cfg_keep_alive, sent, server, call, app>>

RECURSIVE kill_all(_, _)
(* for process in processes: os.kill(process.pid, SIGINT).  The pid of a   *)
(* process that has been waited for no longer exists: os.kill raises       *)
(* ProcessLookupError and the loop ends there.                             *)
kill_all(process, pids) ==
    IF pids = <<>> THEN [process |-> process, raised |-> FALSE]
    ELSE IF process[Head(pids)].reaped THEN [process |-> process, raised |-> TRUE]
         ELSE kill_all([process EXCEPT ![Head(pids)].pending = TRUE,
                                       ![Head(pids)].killed = TRUE],
                       Tail(pids))

(* sig_handler in the parent: the name processes is bound only after the *)
(* handlers are installed                                                *)
sig_handler(pa) ==
    IF pa.processes = None THEN [pa EXCEPT !.pc = "failed"]
    ELSE LET r == kill_all(pa.process, Val(pa.processes))
         IN  [pa EXCEPT !.process = r.process, !.forwarded = TRUE,
                        !.pc = IF r.raised THEN "failed" ELSE @]

Running(pa) == pa.pc \notin {"done", "failed"}

CreateSocket ==
    /\ parent.pc = "socket"
    /\ parent' = [parent EXCEPT !.pc = "install", !.sock = "open"]
    /\ UNCHANGED Others

InstallHandlers ==
    /\ parent.pc = "install"
    /\ parent' = [parent EXCEPT !.pc = "processes"]
    /\ UNCHANGED Others

BindProcesses ==
    /\ parent.pc = "processes"
    /\ parent' = [parent EXCEPT !.pc = "start", !.processes = Some(<<>>)]
    /\ UNCHANGED Others

(* process.start(): multiprocessing first waits for the children that have *)
(* exited, then forks                                                      *)
StartProcess ==
    /\ parent.pc = "start"
    /\ LET w == Len(Val(parent.processes)) + 1
           cleaned == [v \in Workers |->
                         IF parent.process[v].state = "exited"
                         THEN [parent.process[v] EXCEPT !.reaped = TRUE]
                         ELSE parent.process[v]]
       IN  parent' = [parent EXCEPT !.pc = "append",
                                    !.process = [cleaned EXCEPT ![w].state = "starting"]]
    /\ UNCHANGED Others

AppendProcess ==
    /\ parent.pc = "append"
    /\ LET w == Len(Val(parent.processes)) + 1
       IN  parent' = [parent EXCEPT !.processes = Some(Append(Val(@), w)),
                                    !.pc = IF w = NWorkers THEN "join" ELSE "start"]
    /\ UNCHANGED Others

(* process.join() returns when the process has exited *)
JoinProcess ==
    /\ parent.pc = "join"
    /\ LET w == Val(parent.processes)[parent.joined + 1]
       IN  /\ parent.process[w].state = "exited"
           /\ parent' = [parent EXCEPT !.joined = @ + 1,
                                        !.process[w].reaped = TRUE,
                                        !.pc = IF parent.joined + 1 = NWorkers
                                               THEN "terminate" ELSE @]
    /\ UNCHANGED Others

(* process.terminate() of a process that has been waited for does nothing *)
TerminateProcesses ==
    /\ parent.pc = "terminate"
    /\ parent' = [parent EXCEPT !.pc = "close"]
    /\ UNCHANGED Others

(* close that does not wait for the workers *)
CloseSocketEarly ==
    /\ parent.pc \in {"join", "close"}
    /\ parent' = [parent EXCEPT !.pc = "done", !.sock = "closed"]
    /\ UNCHANGED Others

CloseSocket ==
    /\ parent.pc = "close"
    /\ parent' = [parent EXCEPT !.pc = "done", !.sock = "closed"]
    /\ UNCHANGED Others

(* SIGINT or SIGTERM arrives at the parent.  Before signal_func has run the *)
(* default action ends serve_multiple.                                      *)
ParentSignal ==
    /\ Running(parent)
    /\ parent.signals < MaxSignals
    /\ parent' = IF parent.pc \in {"socket", "install"}
                 THEN [parent EXCEPT !.signals = @ + 1, !.pc = "failed"]
                 ELSE [sig_handler(parent) EXCEPT !.signals = @ + 1]
    /\ UNCHANGED Others

(* Server.serve has created its server and registered loop.stop *)
WorkerServes(w) ==
    /\ parent.process[w].state = "starting"
    /\ parent' = [parent EXCEPT !.process[w].state = "serving"]
    /\ UNCHANGED Others

(* Server.serve returns: 'Unable to start server' *)
WorkerFailsToStart(w) ==
    /\ parent.process[w].state = "starting"
    /\ parent' = [parent EXCEPT !.process[w].state = "exited"]
    /\ UNCHANGED Others

(* a signal reaches a worker that still has the handlers it was forked with: *)
(* it runs sig_handler on its copy of processes, the workers started before  *)
(* it, and goes on; ProcessLookupError ends it                               *)
WorkerInheritedHandler(w) ==
    /\ parent.process[w].state = "starting"
    /\ parent.process[w].pending
    /\ LET r == kill_all([parent.process EXCEPT ![w].pending = FALSE],
                         [v \in 1..(w - 1) |-> v])
       IN  parent' = [parent EXCEPT
                        !.process = IF r.raised THEN [r.process EXCEPT ![w].state = "exited"]
                                    ELSE r.process]
    /\ UNCHANGED Others

(* loop.stop: run_forever returns, the worker drains and exits *)
WorkerStops(w) ==
    /\ parent.process[w].state = "serving"
    /\ parent.process[w].pending
    /\ parent' = [parent EXCEPT !.process[w].state = "exited",
                                 !.process[w].pending = FALSE]
    /\ UNCHANGED Others

ParentStep ==
    \/ CreateSocket
    \/ InstallHandlers
    \/ BindProcesses
    \/ StartProcess
    \/ AppendProcess
    \/ JoinProcess
    \/ TerminateProcesses
    \/ CloseSocket

MultipleNext ==
    \/ ParentStep
    \/ ParentSignal
    \/ \E w \in Workers : WorkerServes(w)
    \/ \E w \in Workers : WorkerFailsToStart(w)
    \/ \E w \in Workers : WorkerInheritedHandler(w)
    \/ \E w \in Workers : WorkerStops(w)

(* the parent and the workers are processes of their own: each takes the *)
(* step it can take; signals and start-up failures need not happen       *)
Multiple ==
    /\ MultipleInit /\ [][MultipleNext]_vars
    /\ WF_vars(ParentStep)
    /\ \A w \in Workers : WF_vars(WorkerServes(w) \/ WorkerInheritedHandler(w) \/ WorkerStops(w))

----------------------------------------------------------------------------
(* A running worker whose request handlers answer with one message that *)
(* carries headers of their own, with clients that do not pipeline      *)

HandlerHeaders ==
    { <<name, value>> : name \in {"Connection", "connection", "Content-Type"},
                        value \in {"close", "keep-alive"} }

HeaderMessages ==
    { [status |-> Some(200), headers |-> Some(headers), content |-> OKBody,
       more_content |-> more_content] :
        headers \in UNION { [1..n -> HandlerHeaders] : n \in 0..MaxLines },
        more_content \in BOOLEAN }

EngineNext ==
    \/ \E c \in Conns : ConnectionMade(c)
    \/ \E c \in Conns, data \in {<<"GET / HTTP/1.1", "CRLF">>, <<"GET / HTTP/1.0", "CRLF">>} :
          ClientRequest(c, data)
    \/ \E c \in Conns : BodyChannelSend(c)
    \/ \E c \in Conns, k \in 1..MaxBytes, message \in HeaderMessages :
          ReplyChannelSend(c, k, message)
    \/ \E c \in Conns : Flush(c)
    \/ \E c \in Conns : ConnectionLost(c)

Engine == Init /\ [][EngineNext]_vars

----------------------------------------------------------------------------
(* A running worker whose request handler is Mach9.asgi_handler, with the *)
(* clock and the idle timers, and clients that do not pipeline            *)

TimedRequests ==
    { <<"GET / HTTP/1.1", "CRLF">>,
      <<"GET / HTTP/1.1", "Content-Length: 1", "CRLF", "byte">>,
      <<"GET / HTTP/1.1", "Content-Length: 1", "CRLF">>,
      <<"byte">> }

TimedNext ==
    \/ \E c \in Conns : ConnectionMade(c)
    \/ \E c \in Conns, data \in TimedRequests : ClientRequest(c, data)
    \/ \E c \in Conns : BodyChannelSend(c)
    \/ \E c \in Conns, k \in 1..MaxBytes, route \in {"stream", "body"} : AsgiRoute(c, k, route)
    \/ \E c \in Conns, k \in 1..MaxBytes : GetBody(c, k)
    \/ \E c \in Conns, k \in 1..MaxBytes : StreamReceive(c, k)
    \/ \E c \in Conns, k \in 1..MaxBytes :
          AsgiRespond(c, k, "response", "response", "none", FALSE)
    \/ \E c \in Conns, k \in 1..MaxBytes, caught \in BOOLEAN : AsgiCancelled(c, k, caught)
    \/ \E c \in Conns : Flush(c)
    \/ \E c \in Conns : ConnectionLost(c)
    \/ \E c \in Conns : ConnectionTimeout(c)
    \/ update_current_time

Timed == Init /\ [][TimedNext]_vars

(* The same worker with clients that may go away at any time.  The loop runs *)
(* every callback and every task that is ready: the timers that are due, the *)
(* clock callback, the body-forwarding tasks, the handler tasks whose await  *)
(* has a result, and the connection_lost call of a closed transport.         *)
LossyNext ==
    \/ TimedNext
    \/ \E c \in Conns : ClientDisconnect(c)

LossyFairness ==
    /\ \A c \in 1..NConn : WF_vars(ConnectionTimeout(c))
    /\ \A c \in 1..NConn : WF_vars(BodyChannelSend(c))
    /\ \A c \in 1..NConn : WF_vars(Flush(c))
    /\ \A c \in 1..NConn : WF_vars(ConnectionLost(c))
    /\ \A c \in 1..NConn, k \in 1..MaxBytes :
          /\ WF_vars(\E route \in {"stream", "body"} : AsgiRoute(c, k, route))
          /\ WF_vars(GetBody(c, k))
          /\ WF_vars(AsgiRespond(c, k, "response", "response", "none", FALSE))
          /\ WF_vars(\E caught \in BOOLEAN : AsgiCancelled(c, k, caught))
    /\ WF_vars(update_current_time)

Lossy == Init /\ [][LossyNext]_vars /\ LossyFairness

----------------------------------------------------------------------------
(* A running worker whose protocols are constructed with any of the error *)
(* handlers, clients that send requests the protocol rejects, the clock   *)
(* and the idle timers                                                    *)

ErrorsInit ==
    /\ cfg_keep_alive = TRUE
    /\ \E e \in ErrorHandlers :
          conn = [c \in 1..NConn |-> [HttpProtocol(cfg_keep_alive) EXCEPT !.error_handler = e]]
    /\ connections = {}
    /\ signal_stopped = FALSE
    /\ current_time = 0
    /\ sent = 0
    /\ server = "run_forever"
    /\ call = NoCall
    /\ parent = NoParent
    /\ app = NoApp

ErrorInputs ==
    { <<"GET / HTTP/1.1", "CRLF">>,
      <<"GET / HTTP/1.1">>,
      <<"malformed">>,
      <<"GET / HTTP/1.1", "CONTENT-LENGTH: big">>,
      <<"GET / HTTP/1.1", "Content-Length: 1", "CRLF", "byte">>,
      <<"X-Header: v", "X-Header: v", "X-Header: v">>  }

ErrorsNext ==
    \/ \E c \in Conns : ConnectionMade(c)
    \/ \E c \in Conns, data \in ErrorInputs : DataReceived(c, data)
    \/ \E c \in Conns : BodyChannelSend(c)
    \/ \E c \in Conns, k \in 1..MaxBytes, message \in FirstMessages :
          ReplyChannelSend(c, k, message)
    \/ \E c \in Conns : Flush(c)
    \/ \E c \in Conns : ConnectionLost(c)
    \/ \E c \in Conns : ClientDisconnect(c)
    \/ \E c \in Conns : ConnectionTimeout(c)
    \/ update_current_time

Errors == ErrorsInit /\ [][ErrorsNext]_vars

----------------------------------------------------------------------------
(* A running worker with several connections at once, the clock and the *)
(* idle timers                                                          *)

PeersInit ==
    /\ cfg_keep_alive = TRUE
    /\ conn = [c \in 1..NPeers |-> HttpProtocol(cfg_keep_alive)]
    /\ connections = {}
    /\ signal_stopped = FALSE
    /\ current_time = 0
    /\ sent = 0
    /\ server = "run_forever"
    /\ call = NoCall
    /\ parent = NoParent
    /\ app = NoApp

PeerRequests ==
    { <<"GET / HTTP/1.1", "CRLF">>,
      <<"GET / HTTP/1.1", "Content-Length: 1", "CRLF">>,
      <<"byte">> }

PeersNext ==
    \/ \E c \in Conns : ConnectionMade(c)
    \/ \E c \in Conns, data \in PeerRequests : ClientRequest(c, data)
    \/ \E c \in Conns : BodyChannelSend(c)
    \/ \E c \in Conns, k \in 1..MaxBytes :
          ReplyChannelSend(c, k, [status |-> Some(200), headers |-> Some(<<ContentType>>),
                                  content |-> OKBody, more_content |-> FALSE])
    \/ \E c \in Conns : Flush(c)
    \/ \E c \in Conns : ConnectionLost(c)
    \/ \E c \in Conns : ConnectionTimeout(c)
    \/ update_current_time

Peers == PeersInit /\ [][PeersNext]_vars

----------------------------------------------------------------------------
(* Mach9: the middleware of an application and one run of asgi_handler *)

(* a middleware: where it is attached, its number among those attached *)
(* there, and whether it returns a response                            *)
NewMiddleware(attach_to, n, returns) == [at |-> attach_to, n |-> n, returns |-> returns]

(* register_middleware that appends the response middleware as well *)
register_middleware_append(a, middleware, attach_to) ==
    IF attach_to = "request"
    THEN [a EXCEPT !.request_middleware = Append(@, middleware)]
    ELSE [a EXCEPT !.response_middleware = Append(@, middleware)]

(* Mach9.middleware: append for requests, appendleft for responses *)
register_middleware(a, middleware, attach_to) ==
    LET a1 == IF attach_to = "request"
              THEN [a EXCEPT !.request_middleware = Append(@, middleware)] ELSE a
    IN  IF attach_to = "response"
        THEN [a1 EXCEPT !.response_middleware = <<middleware>> \o @] ELSE a1

(* what a middleware or the handler leaves in the order of execution *)
Ran(middleware) == [at |-> middleware.at, n |-> middleware.n]
HandlerRan == [at |-> "handler", n |-> 0]

(* Mach9._run_request_middleware: the first response returned ends the loop *)
RECURSIVE run_request_middleware(_, _)
run_request_middleware(middlewares, order) ==
    IF middlewares = <<>> THEN [response |-> None, order |-> order]
    ELSE LET middleware == Head(middlewares)
             order1 == Append(order, Ran(middleware))
         IN  IF middleware.returns
             THEN [response |-> Some(Ran(middleware)), order |-> order1]
             ELSE run_request_middleware(Tail(middlewares), order1)

(* Mach9._run_response_middleware: the first response returned replaces the *)
(* response and ends the loop                                               *)
RECURSIVE run_response_middleware(_, _, _)
run_response_middleware(middlewares, response, order) ==
    IF middlewares = <<>> THEN [response |-> response, order |-> order]
    ELSE LET middleware == Head(middlewares)
             order1 == Append(order, Ran(middleware))
         IN  IF middleware.returns
             THEN [response |-> Some(Ran(middleware)), order |-> order1]
             ELSE run_response_middleware(Tail(middlewares), response, order1)

MiddlewareInit ==
    /\ cfg_keep_alive = TRUE
    /\ conn = [c \in 1..NConn |-> HttpProtocol(cfg_keep_alive)]
    /\ connections = {}
    /\ signal_stopped = FALSE
    /\ current_time = 0
    /\ sent = 0
    /\ server = "run_forever"
    /\ call = NoCall
    /\ parent = NoParent
    /\ app = [pc |-> "register", request_middleware |-> <<>>, response_middleware |-> <<>>,
              order |-> <<>>, response |-> None, message |-> None]

Protocols == <<conn, connections, signal_stopped, current_time, cfg_keep_alive, sent, server,
               call, parent>>

(* @app.middleware(attach_to) on a function that returns a response or nothing *)
RegisterMiddleware(attach_to, returns) ==
    /\ app.pc = "register"
    /\ LET registered == IF attach_to = "request" THEN app.request_middleware
                         ELSE app.response_middleware
       IN  /\ Len(registered) < MaxMiddleware
           /\ app' = register_middleware(
                        app, NewMiddleware(attach_to, Len(registered) + 1, returns), attach_to)
    /\ UNCHANGED Protocols

(* asgi_handler: the request middleware *)
RunRequestMiddleware ==
    /\ app.pc = "register"
    /\ LET r == run_request_middleware(app.request_middleware, app.order)
       IN  app' = [app EXCEPT !.order = r.order, !.response = r.response,
                              !.pc = IF r.response = None THEN "handler" ELSE "response"]
    /\ UNCHANGED Protocols

(* asgi_handler: no middleware answered, the route handler is executed *)
ExecuteHandler ==
    /\ app.pc = "handler"
    /\ app' = [app EXCEPT !.order = Append(@, HandlerRan), !.response = Some(HandlerRan),
                          !.pc = "response"]
    /\ UNCHANGED Protocols

(* asgi_handler: the response middleware, in the finally block *)
RunResponseMiddleware ==
    /\ app.pc = "response"
    /\ LET r == run_response_middleware(app.response_middleware, app.response, app.order)
       IN  app' = [app EXCEPT !.order = r.order, !.response = r.response, !.pc = "send"]
    /\ UNCHANGED Protocols

(* asgi_handler: await channels['reply'].send(_message) *)
SendMessage ==
    /\ app.pc = "send"
    /\ app' = [app EXCEPT !.message = app.response, !.pc = "done"]
    /\ UNCHANGED Protocols

MiddlewareNext ==
    \/ \E attach_to \in {"request", "response"}, returns \in BOOLEAN :
          RegisterMiddleware(attach_to, returns)
    \/ RunRequestMiddleware
    \/ ExecuteHandler
    \/ RunResponseMiddleware
    \/ SendMessage

Middleware == MiddlewareInit /\ [][MiddlewareNext]_vars

----------------------------------------------------------------------------
(* WebSocket connections: mach9/websocket.py *)

IsWebSocket(c) == conn[c].transport.protocol = "websocket" /\ conn[c].websocket # None

(* what a request handler sends on the ReplyChannel of a WebSocket connection *)
WsReplies ==
    { [accept |-> TRUE, text |-> FALSE, close |-> FALSE],
      [accept |-> FALSE, text |-> FALSE, close |-> FALSE],
      [accept |-> FALSE, text |-> TRUE, close |-> FALSE],
      [accept |-> FALSE, text |-> FALSE, close |-> TRUE] }

(* websocket.ReplyChannel.send *)
WsReplyChannelSend(c, message) ==
    /\ LoopRunning /\ NoReadyTasks
    /\ IsWebSocket(c)
    /\ ~Val(conn[c].websocket).cleaned
    /\ Len(Val(conn[c].websocket).sent) < MaxSends
    /\ LET ws == Val(conn[c].websocket)
           refused == ~ws.accept /\ ~message.accept
           ws1 == [ws EXCEPT !.accept = @ \/ message.accept,
                             !.reading = @ \/ (~ws.accept /\ message.accept),
                             !.sent = Append(@, message)]
       IN  conn' = [conn EXCEPT ![c] =
                      IF refused \/ message.close
                      THEN transport_close([@ EXCEPT !.websocket = Some(ws1)])
                      ELSE [@ EXCEPT !.websocket = Some(ws1)]]
    /\ UNCHANGED <<connections, signal_stopped, current_time, cfg_keep_alive, call, parent, app, sent, server>>

(* WebSocketProtocol.read: recv() returns a frame *)
WsReceive(c) ==
    /\ LoopRunning /\ NoReadyTasks
    /\ IsWebSocket(c)
    /\ Val(conn[c].websocket).reading
    /\ ~conn[c].transport.lost /\ ~conn[c].transport.closing
    /\ Len(Val(conn[c].websocket).messages) <= MaxFrames
    /\ conn' = [conn EXCEPT ![c].websocket = Some(get_receive_message(Val(@), "text"))]
    /\ UNCHANGED <<connections, signal_stopped, current_time, cfg_keep_alive, call, parent, app, sent, server>>

(* WebSocketProtocol.read: recv() raises ConnectionClosed; the disconnect *)
(* message is dispatched and cleanup runs                                 *)
WsConnectionClosed(c) ==
    /\ LoopRunning /\ NoReadyTasks
    /\ IsWebSocket(c)
    /\ Val(conn[c].websocket).reading
    /\ conn' = [conn EXCEPT ![c].websocket =
                  Some([get_disconnect_message(Val(@), 1000) EXCEPT !.reading = FALSE,
                                                                    !.cleaned = TRUE])]
    /\ UNCHANGED <<connections, signal_stopped, current_time, cfg_keep_alive, call, parent, app, sent, server>>

UpgradeRequests ==
    { <<"GET / HTTP/1.1", "Upgrade: websocket", "Sec-WebSocket-Key: k", "CRLF">>,
      <<"GET / HTTP/1.0", "Upgrade: websocket", "Sec-WebSocket-Key: k", "CRLF">>,
      <<"GET / HTTP/1.1", "Upgrade: websocket", "CRLF">>,
      <<"GET / HTTP/1.0", "Upgrade: websocket", "CRLF">>,
      <<"GET / HTTP/1.1", "CRLF">> }

WebSocketNext ==
    \/ \E c \in Conns : ConnectionMade(c)
    \/ \E c \in Conns, data \in UpgradeRequests : ClientRequest(c, data)
    \/ \E c \in Conns : BodyChannelSend(c)
    \/ \E c \in Conns, k \in 1..MaxBytes :
          ReplyChannelSend(c, k, [status |-> Some(200), headers |-> Some(<<ContentType>>),
                                  content |-> OKBody, more_content |-> FALSE])
    \/ \E c \in Conns, message \in WsReplies : WsReplyChannelSend(c, message)
    \/ \E c \in Conns : WsReceive(c)
    \/ \E c \in Conns : WsConnectionClosed(c)
    \/ \E c \in Conns : Flush(c)
    \/ \E c \in Conns : ConnectionLost(c)
    \/ \E c \in Conns : ClientDisconnect(c)
    \/ \E c \in Conns : ConnectionTimeout(c)
    \/ update_current_time

WebSocket == Init /\ [][WebSocketNext]_vars

----------------------------------------------------------------------------
Next ==
    \/ \E c \in Conns : ConnectionMade(c)
    \/ \E c \in Conns, data \in Inputs : DataReceived(c, data)
    \/ \E c \in Conns : BodyChannelSend(c)
    \/ \E c \in Conns, k \in 1..MaxBytes : BodyChannelReceive(c, k)
    \/ \E c \in Conns, k \in 1..MaxBytes, message \in FirstMessages \cup ChunkMessages :
          ReplyChannelSend(c, k, message)
    \/ \E c \in Conns : Flush(c)
    \/ \E c \in Conns : ConnectionLost(c)
    \/ \E c \in Conns : ClientDisconnect(c)

Spec == Init /\ [][Next]_vars

(* A running worker whose request handlers may send on a reply channel *)
(* after the terminal message, with clients that do not pipeline       *)
RepliesNext ==
    \/ \E c \in Conns : ConnectionMade(c)
    \/ \E c \in Conns, data \in Requests : ClientRequest(c, data)
    \/ \E c \in Conns : BodyChannelSend(c)
    \/ \E c \in Conns, k \in 1..MaxBytes : BodyChannelReceive(c, k)
    \/ \E c \in Conns, k \in 1..MaxBytes, message \in FirstMessages \cup ChunkMessages :
          ReplyChannelSend(c, k, message)
    \/ \E c \in Conns : Flush(c)
    \/ \E c \in Conns : ConnectionLost(c)
    \/ \E c \in Conns : ClientDisconnect(c)
    \/ \E c \in Conns, k \in 1..MaxBytes, message \in FirstMessages \cup ChunkMessages :
          ReplyChannelSendAgain(c, k, message)

Replies == Init /\ [][RepliesNext]_vars

(* A running worker whose request handlers stream their responses and may *)
(* put content in the final chunk                                         *)
StreamedMessages ==
    { [status |-> Some(200), headers |-> Some(<<ContentType>>),
       content |-> <<>>, more_content |-> TRUE],
      get_response_chunk(<<"f">>, TRUE),
      get_response_chunk(<<>>, FALSE),
      get_response_chunk(<<"l">>, FALSE) }

StreamedNext ==
    \/ \E c \in Conns : ConnectionMade(c)
    \/ \E c \in Conns, data \in {<<"GET / HTTP/1.1", "CRLF">>, <<"GET / HTTP/1.0", "CRLF">>} :
          ClientRequest(c, data)
    \/ \E c \in Conns : BodyChannelSend(c)
    \/ \E c \in Conns, k \in 1..MaxBytes : BodyChannelReceive(c, k)
    \/ \E c \in Conns, k \in 1..MaxBytes, message \in StreamedMessages :
          ReplyChannelSend(c, k, message)
    \/ \E c \in Conns : Flush(c)
    \/ \E c \in Conns : ConnectionLost(c)
    \/ \E c \in Conns : ClientDisconnect(c)

Streamed == Init /\ [][StreamedNext]_vars

(* A running worker whose request handler is Mach9.asgi_handler, with *)
(* clients that do not pipeline                                       *)
Outcomes == {"response", "raise", "no_get_message"}

PipelineNext ==
    \/ \E c \in Conns : ConnectionMade(c)
    \/ \E c \in Conns, data \in BodyRequests : ClientRequest(c, data)
    \/ \E c \in Conns : BodyChannelSend(c)
    \/ \E c \in Conns, k \in 1..MaxBytes,
          route \in {"middleware", "raise", "stream", "body"} : AsgiRoute(c, k, route)
    \/ \E c \in Conns, k \in 1..MaxBytes : GetBody(c, k)
    \/ \E c \in Conns, k \in 1..MaxBytes : StreamReceive(c, k)
    \/ \E c \in Conns, k \in 1..MaxBytes, outcome \in Outcomes,
          error \in {"response", "raise"}, middleware \in {"none", "replace", "raise"},
          debug \in BOOLEAN : AsgiRespond(c, k, outcome, error, middleware, debug)
    \/ \E c \in Conns : Flush(c)
    \/ \E c \in Conns : ConnectionLost(c)
    \/ \E c \in Conns : ClientDisconnect(c)

Pipeline == Init /\ [][PipelineNext]_vars

(* Server.serve from run_forever to loop.close(), with the clock, the idle *)
(* timers and clients that do not pipeline                                 *)
ServeNext ==
    \/ \E c \in Conns : ConnectionMade(c)
    \/ \E c \in Conns, data \in Requests :
          sent + Len(data) <= MaxServed /\ ClientRequest(c, data)
    \/ \E c \in Conns : BodyChannelSend(c)
    \/ \E c \in Conns, k \in 1..MaxBytes : BodyChannelReceive(c, k)
    \/ \E c \in Conns, k \in 1..MaxBytes, message \in FirstMessages \cup ChunkMessages :
          ReplyChannelSend(c, k, message)
    \/ \E c \in Conns : Flush(c)
    \/ \E c \in Conns : ConnectionLost(c)
    \/ \E c \in Conns : ClientDisconnect(c)
    \/ \E c \in Conns : ConnectionTimeout(c)
    \/ update_current_time
    \/ Stop
    \/ BeforeStop
    \/ CloseServer
    \/ SignalStopped
    \/ CloseIfIdle
    \/ AfterStop

Serve == Init /\ [][ServeNext]_vars

(* The loop runs every callback that is ready: timers that are due, the    *)
(* one-second clock callback, the body-forwarding tasks, the connection_lost *)
(* call of a closed transport and the drain poll of Server.serve.  Flush is  *)
(* fair when the clients read what is sent to them.                          *)
Fairness ==
    /\ \A c \in 1..NConn : WF_vars(ConnectionTimeout(c))
    /\ \A c \in 1..NConn : WF_vars(BodyChannelSend(c))
    /\ \A c \in 1..NConn : WF_vars(Flush(c))
    /\ \A c \in 1..NConn : WF_vars(ConnectionLost(c))
    /\ WF_vars(update_current_time)
    /\ WF_vars(AfterStop)

FairServe == Serve /\ Fairness

(* Server.serve from its first statement *)
WorkerInit ==
    /\ cfg_keep_alive \in BOOLEAN
    /\ conn = [c \in 1..NConn |-> HttpProtocol(cfg_keep_alive)]
    /\ connections = {}
    /\ signal_stopped = FALSE
    /\ current_time = 0
    /\ sent = 0
    /\ server = "before_start"
    /\ call = NoCall
    /\ parent = NoParent
    /\ app = NoApp

WorkerNext ==
    \/ BeforeStart
    \/ CreateServer
    \/ AfterStart
    \/ ServeNext

Worker == WorkerInit /\ [][WorkerNext]_vars

----------------------------------------------------------------------------
(* What the clients see *)

Wire(c) == conn[c].wire

(* a terminal write: a response with more_content=false, or the terminating chunk *)
Terminal(r) == ~r.more_content

ErrorResponse(r, status, msg) ==
    /\ r.kind = "response"
    /\ r.status = status
    /\ r.content = ErrorPrefix \o msg

----------------------------------------------------------------------------
(* C1: for every request of a connection at most one terminal response is  *)
(* written to the transport, whether it comes from the pipeline's reply or  *)
(* from write_error on the PayloadTooLarge, InvalidUsage or RequestTimeout  *)
(* path.                                                                    *)
SingleTerminalResponse ==
    \A c \in Conns : \A i, j \in 1..Len(Wire(c)) :
        (i < j /\ Terminal(Wire(c)[i]) /\ Terminal(Wire(c)[j]) /\ Wire(c)[i].req # 0)
            => Wire(c)[i].req # Wire(c)[j].req

----------------------------------------------------------------------------
Chunks(ts) == [i \in 1..Len(ts) |-> ts[i].chunk]

Pending(c, k) == Chunks(SelectSeq(conn[c].puts, LAMBDA t : t.ch = k))

(* C2: for one request, what the consumer has obtained from                *)
(* BodyChannel.receive(), followed by what is still queued or on its way,  *)
(* is exactly what on_body and on_message_complete produced, in arrival    *)
(* order, nothing duplicated; only the chunk with more_content=false ends  *)
(* the sequence, and a chunk is withheld only when the idle timeout        *)
(* cancels its forwarding task together with the consumer.                 *)
BodyChunksInOrder ==
    \A c \in Conns : \A k \in 1..Len(conn[c].handlers) :
        LET h == conn[c].handlers[k]
        IN  /\ h.received \o h.queue \o Pending(c, k) \o h.dropped = h.produced
            /\ \A i \in 1..Len(h.produced) : i < Len(h.produced) => h.produced[i].more_content
            /\ h.dropped # <<>> => h.state = "cancelled"

BodyReceivedWhole ==
    \E c \in Conns : \E k \in 1..Len(conn[c].handlers) :
        LET h == conn[c].handlers[k]
        IN  /\ Len(h.produced) = 2
            /\ h.received = h.produced
            /\ h.received[1].content = <<"byte">> /\ h.received[1].more_content
            /\ h.received[2].content = <<>> /\ ~h.received[2].more_content

----------------------------------------------------------------------------
InFlight(c) ==
    { k \in 1..Len(conn[c].handlers) : conn[c].handlers[k].state = "running" }

(* C3: a connection has at most one request in flight: at most one handler *)
(* task that was dispatched and has not had its terminal response written. *)
OneRequestInFlight == \A c \in Conns : Cardinality(InFlight(c)) <= 1

----------------------------------------------------------------------------
Replied(p, q) ==
    CHOOSE k \in 1..Len(p.handlers) : q.handlers[k].nsent # p.handlers[k].nsent

AfterWriteStep(p, q) ==
    LET terminal == q.handlers[Replied(p, q)].replied = "terminal"
        ka == /\ q._keep_alive
              /\ ~signal_stopped
              /\ p.parser # None
              /\ should_keep_alive(Val(p.parser))
    IN  /\ (terminal /\ ~ka) =>
              /\ q.transport.closing
              /\ q.parser = p.parser /\ q.headers = p.headers
              /\ q._last_request_time = p._last_request_time
        /\ (terminal /\ ka) =>
              /\ q.transport.closing = p.transport.closing
              /\ q.parser = None /\ q.url = None /\ q.headers = None
              /\ q.body_channel = None /\ q.message = None
              /\ q._request_handler_task = None /\ q._request_stream_task = None
              /\ q._total_request_size = 0
              /\ q._last_request_time = Some(current_time)
        /\ ~terminal =>
              /\ q.transport.closing = p.transport.closing
              /\ q.parser = p.parser /\ q.headers = p.headers
              /\ q._last_request_time = p._last_request_time
        /\ (Len(q.wire) > Len(p.wire) /\ q.wire[Len(q.wire)].seen.connection_close) =>
              q.transport.closing

----------------------------------------------------------------------------
Responses(c) == { i \in 1..Len(Wire(c)) : Wire(c)[i].kind = "response" }

(* C5 as claimed: the keep-alive decision of every response message is the *)
(* conjunction of (a) no Connection: close among the response headers,     *)
(* (b) the shared signal not stopped, (c) a parser active and (d) the      *)
(* parser's should_keep_alive.                                             *)
KeepAliveIsFourConditions ==
    \A c \in Conns : \A i \in Responses(c) :
        LET r == Wire(c)[i]
        IN  r.keep_alive <=> /\ ~r.seen.connection_close
                             /\ ~r.seen.stopped
                             /\ r.seen.parser_active
                             /\ r.seen.should_keep_alive

(* C5 as amended: the conjunction has a fifth condition, the connection's  *)
(* keep-alive flag: keep_alive is enabled in the configuration and no      *)
(* response of the connection so far, this one included, carried           *)
(* Connection: close.  The decision is what the response's Connection      *)
(* header announces.                                                       *)
KeepAliveIsFlagAndFourConditions ==
    \A c \in Conns : \A i \in Responses(c) :
        LET r == Wire(c)[i]
        IN  /\ r.keep_alive <=>
                  /\ cfg_keep_alive
                  /\ \A j \in Responses(c) : j <= i => ~Wire(c)[j].seen.connection_close
                  /\ ~r.seen.stopped
                  /\ r.seen.parser_active
                  /\ r.seen.should_keep_alive
            /\ r.connection = IF r.keep_alive THEN "keep-alive" ELSE "close"

RefusedByStoppedSignal ==
    \E c \in Conns : \E i \in Responses(c) :
        LET r == Wire(c)[i]
        IN  /\ cfg_keep_alive /\ ~r.seen.connection_close
            /\ r.seen.parser_active /\ r.seen.should_keep_alive
            /\ r.seen.stopped
            /\ r.connection = "close"

----------------------------------------------------------------------------
Received(c) == sent' > sent /\ conn'[c] # conn[c]

ByteCounterStep(p, q) ==
    IF p._total_request_size + (sent' - sent) > request_max_size
    THEN /\ Len(q.wire) > Len(p.wire)
         /\ ErrorResponse(q.wire[Len(p.wire) + 1], 413, PayloadTooLargeMsg)
         /\ q.wire[Len(p.wire) + 1].via = "data_received"
         /\ q.transport.closing
         /\ Len(q.handlers) = Len(p.handlers)
    ELSE \A i \in (Len(p.wire) + 1)..Len(q.wire) : q.wire[i].via # "data_received"

(* C6: when data_received takes the cumulative byte count of the request   *)
(* above request_max_size it writes 413 'Error: Payload Too Large' and     *)
(* closes the transport, with or without complete headers or body, and the *)
(* request is not processed further: no pipeline is dispatched; a count at *)
(* or below the ceiling never makes the byte counter answer.               *)
PayloadTooLargeEndsRequest ==
    [][\A c \in Conns : Received(c) => ByteCounterStep(conn[c], conn'[c])]_vars

----------------------------------------------------------------------------
FromParsing == {"on_header", "parser_error", "callback_error"}

(* C7: a Content-Length header, whatever its case, that declares more than *)
(* request_max_size makes on_header fail the connection as the byte        *)
(* counter does: one 413 'Error: Payload Too Large' is written and the     *)
(* transport closed, and the parser callbacks that remain for the request  *)
(* neither raise nor produce another response.                             *)
DeclaredLengthTooLargeOnce ==
    \A c \in Conns : \A i \in 1..Len(Wire(c)) :
        Wire(c)[i].via = "on_header" =>
            /\ ErrorResponse(Wire(c)[i], 413, PayloadTooLargeMsg)
            /\ conn[c].transport.closing
            /\ \A j \in 1..Len(Wire(c)) :
                   (j # i /\ Wire(c)[j].req = Wire(c)[i].req) => Wire(c)[j].via \notin FromParsing

----------------------------------------------------------------------------
Rejections(c) == { i \in 1..Len(Wire(c)) : Wire(c)[i].via = "parser_error" }

(* C8: bytes the parser rejects as malformed are answered with one         *)
(* response whose status line is HTTP/1.1 400 Bad Request and whose body   *)
(* is 'Error: Bad Request'; the transport is closed, and the error path    *)
(* puts nothing on a body channel and sends nothing through a reply        *)
(* channel.                                                                *)
MalformedRequestIsBadRequest ==
    \A c \in Conns :
        /\ Cardinality(Rejections(c)) = IF conn[c].rejected THEN 1 ELSE 0
        /\ \A i \in Rejections(c) :
               /\ ErrorResponse(Wire(c)[i], 400, BadRequestMsg)
               /\ Wire(c)[i].reason = "Bad Request"
               /\ Terminal(Wire(c)[i])
               /\ conn[c].transport.closing
        /\ LET q == write_error(conn[c], InvalidUsage(BadRequestMsg), conn[c].rx_req,
                                 "parser_error")
           IN  /\ q.puts = conn[c].puts /\ q.nput = conn[c].nput
               /\ q.handlers = conn[c].handlers

MalformedFirstByteAnswered ==
    \E c \in Conns :
        /\ conn[c].rejected
        /\ Len(Wire(c)) = 1
        /\ Wire(c)[1].via = "parser_error" /\ Wire(c)[1].status = 400
        /\ conn[c].handlers = <<>>
        /\ conn[c].transport.closing

----------------------------------------------------------------------------
TimerFires(c) ==
    /\ conn[c]._timeout_handler # None
    /\ Val(conn[c]._timeout_handler) <= current_time
    /\ conn'[c]._timeout_handler # conn[c]._timeout_handler
    /\ conn'[c].transport.lost = conn[c].transport.lost

TakesWrites(p) == ~p.transport.lost /\ ~(p.transport.closing /\ ~p.transport.buffered)

TimerStep(p, q) ==
    LET elapsed == current_time - Val(p._last_request_time)
    IN  IF elapsed < request_timeout
        THEN q = [p EXCEPT !._timeout_handler =
                               Some(current_time + (request_timeout - elapsed))]
        ELSE /\ q._timeout_handler = None
             /\ q.transport.closing
             /\ TakesWrites(p) =>
                    /\ Len(q.wire) = Len(p.wire) + 1
                    /\ ErrorResponse(q.wire[Len(q.wire)], 408, RequestTimeoutMsg)

(* the timer's own rule *)
TimerRearmsOrTimesOut ==
    [][\A c \in Conns : TimerFires(c) => TimerStep(conn[c], conn'[c])]_vars

(* a request that has its handler's terminal reply gets no 408 *)
NoTimeoutAfterReply ==
    \A c \in Conns : \A i, j \in 1..Len(Wire(c)) :
        (/\ i < j
         /\ Wire(c)[i].via = "reply" /\ Terminal(Wire(c)[i])
         /\ Wire(c)[j].via = "connection_timeout")
            => Wire(c)[j].req # Wire(c)[i].req

(* C9: a firing of the idle timer that finds the elapsed idle time below   *)
(* request_timeout writes nothing and re-arms the timer for exactly        *)
(* request_timeout minus elapsed; a firing that finds it at or above       *)
(* request_timeout writes 408 'Error: Request Timeout' to a transport that *)
(* still takes writes and does not re-arm.  Hence a request whose handler  *)
(* replied before the limit gets that reply and no 408.                    *)
RequestTimeoutOnlyWithoutReply ==
    [][/\ \A c \in Conns : TimerFires(c) => TimerStep(conn[c], conn'[c])
       /\ NoTimeoutAfterReply']_vars

----------------------------------------------------------------------------
(* C10: once stop is triggered, with the timers, the connection_lost calls *)
(* and the drain poll scheduled fairly, the live-connection set empties    *)
(* and the after_stop hooks run, whatever connections were present.        *)
DrainTerminates == (server = "drain") ~> (server = "closed")

Upgraded(c) == conn[c].transport.protocol = "websocket"

(* what does hold: the drain ends unless an upgraded connection is left *)
DrainTerminatesUnlessUpgraded ==
    (server = "drain") ~> (server = "closed" \/ \E c \in connections : Upgraded(c))
----------------------------------------------------------------------------
(* The order of the lifecycle: each position of Server.serve and the one   *)
(* that follows it                                                         *)
LifecycleOrder ==
    { <<"before_start", "create_server">>,
      <<"create_server", "after_start">>,
      <<"after_start", "run_forever">>,
      <<"run_forever", "before_stop">>,
      <<"before_stop", "close">>,
      <<"close", "wait_closed">>,
      <<"wait_closed", "close_if_idle">>,
      <<"close_if_idle", "drain">>,
      <<"drain", "closed">> }

ListenerOpen == {"after_start", "run_forever", "before_stop", "close"}

(* C11: the lifecycle events of a worker occur in one order: before-start   *)
(* hooks, the listener starts, after-start hooks, and on stop before-stop   *)
(* hooks, the listener stops, the signal is marked stopped, close_if_idle   *)
(* is called on every live connection, the drain poll runs until the        *)
(* live-connection set is empty, after-stop hooks.  A connection is         *)
(* accepted only while the listener is open, the signal is set at its       *)
(* place in the order only, and the after-stop hooks never run while a      *)
(* connection is in the live set.                                           *)
LifecycleInOrder ==
    [][ /\ server' # server => <<server, server'>> \in LifecycleOrder
        /\ ~(connections' \subseteq connections) => server \in ListenerOpen
        /\ signal_stopped' # signal_stopped =>
              signal_stopped' /\ server = "wait_closed" /\ server' = "close_if_idle"
        /\ signal_stopped' = (server' \in {"close_if_idle", "drain", "closed"})
        /\ (server = "close_if_idle" /\ server' = "drain") =>
              \A c \in connections :
                  conn'[c].transport.closing =
                      (conn[c].transport.closing \/ conn[c].parser = None)
        /\ server' = "closed" => connections' = {} ]_vars

(* a worker that served a request, waited for a connection to drain and stopped *)
StoppedAfterDrain ==
    /\ server = "closed"
    /\ \E c \in Conns : conn[c].made /\ conn[c].transport.lost
                         /\ \E i \in 1..Len(conn[c].wire) : conn[c].wire[i].seen.stopped

----------------------------------------------------------------------------
(* C12: in every reachable state of a live connection, close_if_idle()      *)
(* closes the transport and returns true when no parser is active, leaves   *)
(* the transport untouched and returns false when a parser is active,       *)
(* changes nothing else, and gives the same result when repeated.           *)
CloseIfIdleByParser ==
    \A c \in connections :
        LET p == conn[c]
            r == close_if_idle(p)
        IN  /\ p.parser = None =>
                  /\ r.result
                  /\ r.p.transport.closing
                  /\ r.p = [p EXCEPT !.transport.closing = TRUE]
            /\ p.parser # None => ~r.result /\ r.p = p
            /\ close_if_idle(r.p) = r

(* the shutdown has called close_if_idle on a connection with a request in *)
(* progress, which stays open, after it closed that connection when idle   *)
BusyConnectionLeftOpen ==
    /\ server = "drain"
    /\ \E c \in connections :
          /\ conn[c].parser # None
          /\ ~conn[c].transport.closing
          /\ ~close_if_idle(conn[c]).result

(* the shutdown has closed an idle connection that had written nothing *)
IdleConnectionClosed ==
    /\ server = "drain"
    /\ \E c \in connections :
          /\ conn[c].parser = None
          /\ conn[c].wire = <<>>
          /\ conn[c].transport.closing
          /\ close_if_idle(conn[c]).result

----------------------------------------------------------------------------
(* what a step of connection c writes to its transport *)
Written(c) == { i \in 1..Len(conn'[c].wire) : i > Len(conn[c].wire) }

(* C13: the stopped flag of the shared signal changes from false to true   *)
(* once, when the shutdown sets it, and never returns to false; every      *)
(* keep-alive decision made while it is set is false, and every terminal   *)
(* response written while it is set leaves its transport closing.          *)
StoppedSignalEndsKeepAlive ==
    [][ /\ signal_stopped => signal_stopped'
        /\ signal_stopped' # signal_stopped =>
              server = "wait_closed" /\ server' = "close_if_idle"
        /\ \A c \in Conns : \A i \in Written(c) :
              LET r == conn'[c].wire[i]
              IN  /\ r.seen.stopped = signal_stopped
                  /\ signal_stopped =>
                        /\ ~r.keep_alive
                        /\ Terminal(r) => conn'[c].transport.closing ]_vars

(* a handler's reply to a keep-alive request, written during the drain, *)
(* has closed the connection                                            *)
ReplyDuringDrainCloses ==
    \E c \in Conns : \E i \in 1..Len(conn[c].wire) :
        LET r == conn[c].wire[i]
        IN  /\ r.via = "reply" /\ Terminal(r)
            /\ r.seen.stopped /\ r.seen.should_keep_alive /\ ~r.seen.connection_close
            /\ cfg_keep_alive
            /\ ~r.keep_alive
            /\ conn[c].transport.closing

----------------------------------------------------------------------------
(* the parser is past the headers of a request whose body is not complete *)
InBody(p) == p.parser # None /\ Val(p.parser).st = "body" /\ ~p._is_upgrade

(* C14: the pipeline of a request is dispatched at headers-complete with a  *)
(* body channel and a reply channel of its own, before any body chunk of    *)
(* the request is enqueued and before message-complete: while the body of   *)
(* a request is still arriving its handler task exists, the chunks          *)
(* produced so far are on that task's channel, none of them is the final    *)
(* one, and no two requests share a task or a channel.                      *)
DispatchedAtHeadersComplete ==
    \A c \in Conns :
        LET p == conn[c]
        IN  /\ \A j, k \in 1..Len(p.handlers) :
                  j # k => p.handlers[j].req # p.handlers[k].req
            /\ InBody(p) =>
                  /\ p.body_channel # None
                  /\ p._request_handler_task = p.body_channel
                  /\ LET h == p.handlers[Val(p.body_channel)]
                     IN  /\ h.req = p.rx_req
                         /\ \A i \in 1..Len(h.produced) : h.produced[i].more_content

(* a streaming consumer holds the first body chunk while the rest of the *)
(* body has not arrived                                                  *)
ConsumerAheadOfNetwork ==
    \E c \in Conns :
        /\ InBody(conn[c])
        /\ Val(conn[c].parser).clen = 1
        /\ LET h == conn[c].handlers[Val(conn[c].body_channel)]
           IN  /\ h.state = "running"
               /\ h.produced = <<get_request_body_chunk(<<"byte">>, FALSE, TRUE)>>
               /\ h.received = h.produced
               /\ h.queue = <<>>

----------------------------------------------------------------------------
(* a step in which the handler task k of connection c sends on its reply *)
(* channel after its terminal message                                    *)
SendsAfterTerminal(c, k) ==
    /\ k \in 1..Len(conn[c].handlers)
    /\ conn[c].handlers[k].replied = "terminal"
    /\ conn'[c].handlers[k].nsent = conn[c].handlers[k].nsent + 1

(* C15: once a message with more_content=false has been sent through a     *)
(* request's ReplyChannel, a further send on that channel writes nothing   *)
(* to the transport and does not change the connection's state.            *)
ReplyChannelInvalidated ==
    [][\A c \in Conns : \A k \in 1..MaxBytes :
          SendsAfterTerminal(c, k) =>
              /\ conn'[c].wire = conn[c].wire
              /\ conn'[c].transport = conn[c].transport
              /\ conn'[c].parser = conn[c].parser
              /\ conn'[c]._keep_alive = conn[c]._keep_alive]_vars

----------------------------------------------------------------------------
(* The bytes of the body of the request of handler task k, as the client   *)
(* sent them: the body bytes received on the connection, past the declared *)
(* lengths of the requests before                                          *)
DeclaredLength(h) ==
    LET headers == Val(Val(h.message).headers)
        I == { i \in 1..Len(headers) : headers[i][1] = "content-length" }
    IN  IF I = {} THEN 0 ELSE int(headers[CHOOSE i \in I : TRUE][2])

RECURSIVE DeclaredBefore(_, _)
DeclaredBefore(hs, k) ==
    IF k <= 1 THEN 0 ELSE DeclaredLength(hs[k - 1]) + DeclaredBefore(hs, k - 1)

ExactBody(p, k) ==
    SubSeq(p.rxbody, DeclaredBefore(p.handlers, k) + 1,
           DeclaredBefore(p.handlers, k) + DeclaredLength(p.handlers[k]))

(* C16: when a route handler is called exactly one body mode is active,    *)
(* chosen before the call: a handler that declared streaming finds the     *)
(* body channel of its request in request.stream, nothing consumed from    *)
(* it, and no materialized body; any other handler finds request.stream    *)
(* None and the whole body of the request in request.body.                 *)
BodyModeChosenBeforeHandler ==
    \A c \in Conns : \A k \in 1..Len(conn[c].handlers) :
        LET h == conn[c].handlers[k]
            v == Val(h.invoked)
        IN  h.invoked # None =>
              /\ v.is_stream \in {Some(TRUE), Some(FALSE)}
              /\ v.is_stream = Some(TRUE) =>
                    v.stream = Some(k) /\ v.consumed = 0 /\ v.body = <<>>
              /\ v.is_stream = Some(FALSE) =>
                    /\ v.stream = None
                    /\ v.body = ExactBody(conn[c], k)
                    /\ v.consumed = Len(h.produced)
                    /\ ~h.produced[Len(h.produced)].more_content

(* a handler that did not declare streaming is called with a body that *)
(* arrived in two fragments                                            *)
MaterializedFromTwoFragments ==
    \E c \in Conns : \E k \in 1..Len(conn[c].handlers) :
        LET h == conn[c].handlers[k]
        IN  /\ h.invoked # None
            /\ Val(h.invoked).is_stream = Some(FALSE)
            /\ Val(h.invoked).stream = None
            /\ Val(h.invoked).body = <<"byte", "byte2">>
            /\ Val(h.invoked).consumed = 3

(* a handler that declared streaming is called while its body arrives *)
StreamingHandlerCalled ==
    \E c \in Conns : \E k \in 1..Len(conn[c].handlers) :
        LET h == conn[c].handlers[k]
        IN  /\ h.invoked # None
            /\ Val(h.invoked).is_stream = Some(TRUE)
            /\ Val(h.invoked).stream = Some(k)
            /\ h.received # <<>>
            /\ InBody(conn[c])

----------------------------------------------------------------------------
(* the chunks of a sequence up to and including the first final one *)
RECURSIVE UpToFinal(_)
UpToFinal(chunks) ==
    IF chunks = <<>> THEN <<>>
    ELSE IF ~Head(chunks).more_content THEN <<Head(chunks)>>
         ELSE <<Head(chunks)>> \o UpToFinal(Tail(chunks))

HasFinal(chunks) == \E i \in 1..Len(chunks) : ~chunks[i].more_content

(* the responses written for the reply of handler task h *)
Echoes(p, h) ==
    { i \in 1..Len(p.wire) :
          /\ p.wire[i].kind = "response" /\ p.wire[i].via = "reply"
          /\ p.wire[i].req = h.req }

(* C17: the contents of the chunks a consumer received from the body       *)
(* channel up to the first chunk with more_content=false, concatenated,    *)
(* are the exact bytes of the request body, however the body was           *)
(* fragmented: for the body get_body materializes and for the response of  *)
(* a streaming handler that echoes every chunk it received.                *)
RequestBodyRoundTrip ==
    \A c \in Conns : \A k \in 1..Len(conn[c].handlers) :
        LET p == conn[c]
            h == p.handlers[k]
        IN  /\ HasFinal(h.received) =>
                  Concat(UpToFinal(h.received)) = ExactBody(p, k)
            /\ (h.invoked # None /\ h.is_stream = Some(FALSE)) =>
                  h.request.body = ExactBody(p, k)
            /\ (h.is_stream = Some(TRUE) /\ HasFinal(h.received) /\ h.sent # <<>>
                   /\ h.raised = None /\ h.response = Some(text(EchoBody(h)))) =>
                  /\ h.sent[1].content = ExactBody(p, k)
                  /\ \A i \in Echoes(p, h) : p.wire[i].content = ExactBody(p, k)

(* a streaming handler has echoed a body that arrived in two fragments *)
EchoOfTwoFragments ==
    \E c \in Conns : \E k \in 1..Len(conn[c].handlers) :
        LET p == conn[c]
            h == p.handlers[k]
        IN  /\ h.is_stream = Some(TRUE)
            /\ Len(h.received) = 3 /\ HasFinal(h.received)
            /\ h.sent # <<>> /\ h.sent[1].content = <<"byte", "byte2">>
            /\ \E i \in Echoes(p, h) : p.wire[i].content = <<"byte", "byte2">>
            /\ p.rxbody = <<"byte", "byte2">>

----------------------------------------------------------------------------
(* the response middleware may put this response in place of another *)
MiddlewareResponse == text(OKBody)

FallbackIsServerError ==
    \A c \in Conns : \A k \in 1..Len(conn[c].handlers) :
        LET h == conn[c].handlers[k]
        IN  (h.pc = "done" /\ h.fallback # None /\ h.response = h.fallback) =>
              /\ Len(h.sent) = 1
              /\ h.sent[1].status = Some(500)
              /\ h.sent[1].content \in {ErrorWhileHandlingErrorMsg,
                                         DebugErrorPrefix \o HandlerFailedMsg}

----------------------------------------------------------------------------
(* a step in which handler task k of connection c sends a response chunk, *)
(* a message with neither status nor headers, to a transport that takes   *)
(* writes                                                                 *)
SendsChunk(c, k) ==
    /\ k \in 1..Len(conn[c].handlers)
    /\ Len(conn'[c].handlers[k].sent) = Len(conn[c].handlers[k].sent) + 1
    /\ LET m == conn'[c].handlers[k].sent[Len(conn'[c].handlers[k].sent)]
       IN  m.status = None /\ m.headers = None
    /\ TakesWrites(conn[c])

LengthInHex(content) ==
    <<"0","1","2","3","4","5","6","7","8","9","a","b","c","d","e","f">>[Len(content) + 1]

(* C20: a message with neither status nor headers is a response chunk.     *)
(* A chunk with more_content=true and content is written as                *)
(* <hex-length>\r\n<bytes>\r\n, one with more_content=true and no content  *)
(* writes nothing, the chunk with more_content=false writes the terminator *)
(* 0\r\n\r\n once, and only that final chunk closes the transport or runs  *)
(* cleanup.                                                                *)
ChunkedFraming ==
    [][\A c \in Conns : \A k \in 1..MaxBytes :
          SendsChunk(c, k) =>
              LET p == conn[c]
                  q == conn'[c]
                  m == q.handlers[k].sent[Len(q.handlers[k].sent)]
                  new == SubSeq(q.wire, Len(p.wire) + 1, Len(q.wire))
              IN  /\ (m.more_content /\ m.content # <<>>) =>
                        /\ Len(new) = 1
                        /\ new[1].data = <<LengthInHex(m.content), "\r\n">>
                                             \o m.content \o <<"\r\n">>
                  /\ (m.more_content /\ m.content = <<>>) =>
                        new = <<>> /\ q.transport = p.transport
                  /\ m.more_content =>
                        /\ q.transport.closing = p.transport.closing
                        /\ q.parser = p.parser /\ q.headers = p.headers
                        /\ q._last_request_time = p._last_request_time
                  /\ ~m.more_content =>
                        /\ Len(new) = 1
                        /\ new[1].data = <<"0", "\r\n", "\r\n">>
                        /\ IF new[1].keep_alive
                           THEN /\ q.parser = None
                                /\ q.transport.closing = p.transport.closing
                           ELSE /\ q.transport.closing
                                /\ q.parser = p.parser]_vars

(* a streamed response: its first message, then a chunk in its frame *)
FramedChunkWritten ==
    \E c \in Conns : \E i \in 2..Len(conn[c].wire) :
        /\ conn[c].wire[i - 1].kind = "response" /\ conn[c].wire[i - 1].more_content
        /\ conn[c].wire[i].kind = "chunk"
        /\ conn[c].wire[i].data = <<"1", "\r\n", "f", "\r\n">>
        /\ conn[c].wire[i].req = conn[c].wire[i - 1].req
        /\ ~conn[c].transport.closing /\ conn[c].parser # None

(* a streamed response ended by its terminator on a connection kept alive *)
TerminatorWritten ==
    \E c \in Conns : \E i \in 2..Len(conn[c].wire) :
        /\ conn[c].wire[i - 1].kind = "response" /\ conn[c].wire[i - 1].more_content
        /\ conn[c].wire[i].kind = "last"
        /\ conn[c].wire[i].data = last_chunk
        /\ conn[c].wire[i].keep_alive
        /\ ~conn[c].transport.closing /\ conn[c].parser = None

----------------------------------------------------------------------------
Returned(fn) == call.fn = fn /\ call.pc = "return"

NotConnection(header) == header[1] # "Connection"

Decimal(n) ==
    <<"0", "1", "2", "3", "4", "5", "6", "7", "8", "9", "10", "11", "12", "13", "14",
      "15", "16", "17", "18", "19", "20">>[n + 1]

(* C21: make_header_content returns nothing when headers is None.  Given a *)
(* header list it starts with Content-Length: len(content) exactly when    *)
(* more_content is false and no header of the list is named                *)
(* Content-Length, and everything else it returns is the caller's headers  *)
(* other than Connection, each as name: value CRLF, in the caller's order. *)
HeaderContentContract ==
    Returned("make_header_content") =>
        LET out == Val(call.result)
        IN  IF call.headers = None THEN out = <<>>
            ELSE LET headers == Val(call.headers)
                     computed == /\ ~call.more_content
                                 /\ \A i \in 1..Len(headers) : headers[i][1] # "Content-Length"
                     kept == SelectSeq(headers, NotConnection)
                     rest == IF computed THEN SubSeq(out, 4, Len(out)) ELSE out
                 IN  /\ computed =>
                           /\ Len(out) >= 3
                           /\ SubSeq(out, 1, 3) =
                                  <<"Content-Length: ", Decimal(Len(call.content)), "\r\n">>
                     /\ Len(rest) = 4 * Len(kept)
                     /\ \A j \in 1..Len(kept) :
                           SubSeq(rest, 4 * j - 3, 4 * j) =
                               <<kept[j][1], ": ", kept[j][2], "\r\n">>

(* a response of twelve bytes with a near-miss header: the length is computed *)
(* and written in two digits before the caller's header                       *)
ComputedLengthEmitted ==
    /\ Returned("make_header_content")
    /\ call.headers = Some(<< <<"_Content-Length", "1">>, <<"Connection", "close">> >>)
    /\ Len(call.content) = 12 /\ ~call.more_content
    /\ Val(call.result) = <<"Content-Length: ", "12", "\r\n",
                            "_Content-Length", ": ", "1", "\r\n">>

(* the caller's own Content-Length is the only one written *)
SuppliedLengthKept ==
    /\ Returned("make_header_content")
    /\ call.headers = Some(<< <<"Content-Length", "1">> >>)
    /\ Len(call.content) = 3 /\ ~call.more_content
    /\ Val(call.result) = <<"Content-Length", ": ", "1", "\r\n">>

----------------------------------------------------------------------------
HeaderSet(headers) == { headers[i] : i \in 1..Len(headers) }

(* C23: check_headers reports connection_close exactly when the list holds *)
(* the header Connection: close, and content_length exactly when it holds  *)
(* a header named Content-Length; names and values that only resemble      *)
(* these do not count.                                                     *)
CheckHeadersExact ==
    Returned("check_headers") =>
        LET result == Val(call.result)
        IN  /\ result.connection_close <=> <<"Connection", "close">> \in HeaderSet(call.headers)
            /\ result.content_length <=>
                   \E header \in HeaderSet(call.headers) : header[1] = "Content-Length"

(* the near misses of the unit test: Connection: __close and _Content-Length *)
NearMissesRejected ==
    /\ Returned("check_headers")
    /\ call.headers = << <<"Connection", "__close">>, <<"_Content-Length", "1">> >>
    /\ Val(call.result) = [connection_close |-> FALSE, content_length |-> FALSE]

(* __Connection: close next to a real Content-Length *)
ExactNamesAccepted ==
    /\ Returned("check_headers")
    /\ call.headers = << <<"__Connection", "close">>, <<"Content-Length", "1">> >>
    /\ Val(call.result) = [connection_close |-> FALSE, content_length |-> TRUE]

----------------------------------------------------------------------------
(* the names of the caller's headers in the header content of a response: *)
(* what follows the Content-Length the engine computed, one name in four  *)
(* byte strings                                                           *)
CallerNames(r) ==
    LET out == r.header_content
        skip == IF out # <<>> /\ out[1] = "Content-Length: " THEN 3 ELSE 0
    IN  { out[skip + 4 * j - 3] : j \in 1..((Len(out) - skip) \div 4) }

(* C22: every response send writes, complete or the start of a streamed   *)
(* one, carries the Connection header of the engine, keep-alive when the  *)
(* computed keep-alive is true and close otherwise, and no Connection     *)
(* header of the caller; Keep-Alive: <timeout> is written exactly when    *)
(* keep-alive is true.                                                    *)
EngineControlsConnection ==
    \A c \in Conns : \A i \in 1..Len(Wire(c)) :
        LET r == Wire(c)[i]
        IN  r.kind = "response" =>
                /\ r.connection = IF r.keep_alive THEN "keep-alive" ELSE "close"
                /\ \A name \in CallerNames(r) : lower(name) # "connection"
                /\ r.timeout_header # None <=> r.keep_alive
                /\ r.timeout_header # None => r.timeout_header = Some(request_timeout)

----------------------------------------------------------------------------
Spawned(w) == parent.process[w].state # "unborn"

(* C24: serve_multiple closes the listening socket only when every worker *)
(* process it started has exited.                                         *)
SocketClosedAfterWorkers ==
    parent.sock = "closed" =>
        /\ \A w \in Workers : parent.process[w].state = "exited"
        /\ parent.joined = NWorkers

(* the socket is closed after a signal was forwarded to both workers *)
ClosedAfterForwardedSignal ==
    /\ parent.sock = "closed" /\ parent.pc = "done"
    /\ parent.forwarded
    /\ \A w \in Workers : parent.process[w].killed /\ parent.process[w].state = "exited"

(* C25: once the parent has received a signal with its handlers installed, *)
(* its wait for the workers ends: every worker it starts, before or after  *)
(* the signal, is sent a signal that stops it.                             *)
ForwardedSignalEndsWait ==
    (parent.signals > 0 /\ Running(parent))
        ~> (parent.pc \in {"terminate", "close", "done", "failed"})

(* a worker started after the signal is never signalled *)
StartedAfterSignal ==
    /\ parent.pc = "join" /\ parent.signals = MaxSignals
    /\ \E w \in Workers : parent.process[w].state = "serving" /\ ~parent.process[w].killed

----------------------------------------------------------------------------
(* the idle timer of connection c fires and finds the limit reached *)
TimesOut(c) == TimerFires(c) /\ conn'[c]._timeout_handler = None

(* C26: when the idle timer finds the limit reached, no body-forwarding    *)
(* task and no handler task of the connection is left pending by the time  *)
(* the 408 is written, and a task that was cancelled sends nothing on its  *)
(* reply channel afterwards.                                               *)
TimeoutCancelsTasks ==
    [][\A c \in Conns :
          /\ TimesOut(c) =>
                /\ conn'[c].puts = <<>>
                /\ \A k \in 1..Len(conn'[c].handlers) :
                      conn'[c].handlers[k].state # "running"
          /\ \A k \in 1..Len(conn[c].handlers) :
                conn[c].handlers[k].state = "cancelled" =>
                    /\ conn'[c].handlers[k].nsent = conn[c].handlers[k].nsent
                    /\ conn'[c].handlers[k].sent = conn[c].handlers[k].sent]_vars

----------------------------------------------------------------------------
(* C27: once write_error has been called on a connection, for any of the *)
(* exceptions and whether the error response was written, the error      *)
(* handler raised or send raised, close() has been called on the         *)
(* connection's transport.                                               *)
ErrorPathCloses ==
    \A c \in Conns : conn[c].errors # <<>> => conn[c].transport.closing

(* write_error has been called with a handler that raises and the transport *)
(* is closed with nothing written                                           *)
ClosedThoughHandlerRaised ==
    \E c \in Conns : /\ conn[c].error_handler = "raise"
                     /\ conn[c].errors # <<>>
                     /\ conn[c].wire = <<>>
                     /\ conn[c].transport.closing

ClosedThoughSendRaised ==
    \E c \in Conns : /\ conn[c].error_handler = "unknown_status"
                     /\ \E i \in 1..Len(conn[c].errors) : conn[c].errors[i] = 408
                     /\ conn[c].transport.closing

ClosedAfterErrorWritten ==
    \E c \in Conns : /\ conn[c].error_handler = "response"
                     /\ \E i \in 1..Len(conn[c].errors) : conn[c].errors[i] = 413
                     /\ conn[c].wire # <<>>
                     /\ conn[c].transport.closing

----------------------------------------------------------------------------
(* C28: once write_error has been called on a connection whose error     *)
(* handler raises, or whose error response send cannot write, an error   *)
(* response with a fallback body has been written to the transport.      *)
FallbackBodyWritten ==
    \A c \in Conns :
        conn[c].error_handler # "response" /\ conn[c].errors # <<>> =>
            \E i \in 1..Len(conn[c].wire) :
                /\ conn[c].wire[i].kind = "response"
                /\ conn[c].wire[i].status \in {400, 408, 413, 500}

----------------------------------------------------------------------------
(* C29: a connection that has been made and not lost has its timer armed  *)
(* or has timed out; a lost connection has no timer pending and is not in *)
(* the set of live connections, and the timer callback never runs for it. *)
NoTimerAfterLoss ==
    [][\A c \in Conns :
          /\ conn[c].transport.lost => ~TimerFires(c)
          /\ conn'[c].transport.lost =>
                conn'[c]._timeout_handler = None /\ c \notin connections']_vars

(* the same for the connections whose transport still has the HttpProtocol *)
NoTimerAfterConnectionLost ==
    [][\A c \in Conns :
          conn'[c].transport.protocol = "http" =>
              /\ conn[c].transport.lost => ~TimerFires(c)
              /\ conn'[c].transport.lost =>
                    conn'[c]._timeout_handler = None /\ c \notin connections']_vars

----------------------------------------------------------------------------
(* C30: the header list of every Request Message ends with the headers of *)
(* its request, in the order they arrived, each with the name and the     *)
(* value the parser gave to on_header.                                    *)
HeadersAsReceived ==
    \A c \in Conns : \A k \in 1..Len(conn[c].handlers) :
        LET h == conn[c].handlers[k]
            headers == Val(Val(h.message).headers)
            n == Len(headers) - Len(h.rxheaders)
        IN  h.message # None =>
                /\ n >= 0
                /\ \A i \in 1..Len(h.rxheaders) : headers[n + i] = h.rxheaders[i]

(* the same with the names lower-cased: what on_header stores *)
HeadersLowerCased ==
    \A c \in Conns : \A k \in 1..Len(conn[c].handlers) :
        LET h == conn[c].handlers[k]
            headers == Val(Val(h.message).headers)
            n == Len(headers) - Len(h.rxheaders)
        IN  h.message # None =>
                /\ n >= 0
                /\ \A i \in 1..Len(h.rxheaders) :
                      headers[n + i] = <<lower(h.rxheaders[i][1]), h.rxheaders[i][2]>>

----------------------------------------------------------------------------
(* C31: a step in which the idle timer of connection a fires, whether it  *)
(* re-arms or cancels the tasks, writes the 408 and closes, leaves every  *)
(* other connection b of the worker as it was, and the set of live        *)
(* connections too.                                                       *)
TimeoutIsConnectionScoped ==
    [][\A a \in Conns : TimerFires(a) =>
          /\ \A b \in Conns \ {a} : conn'[b] = conn[b]
          /\ connections' = connections]_vars

(* connection a has timed out while connection b has a request in progress, *)
(* its handler task running and its timer armed                             *)
TimedOutBesideBusyPeer ==
    \E a \in Conns : \E b \in Conns \ {a} :
        /\ \E i \in 1..Len(conn[a].wire) : conn[a].wire[i].via = "connection_timeout"
        /\ conn[a].transport.closing
        /\ conn[b].parser # None /\ ~conn[b].transport.closing
        /\ conn[b]._timeout_handler # None
        /\ \E k \in 1..Len(conn[b].handlers) : conn[b].handlers[k].state = "running"

----------------------------------------------------------------------------
ReturnNothing(middlewares) ==
    \A i \in 1..Len(middlewares) : ~middlewares[i].returns

(* C32: when every registered middleware returns nothing, a finished run of *)
(* asgi_handler has executed the request middleware in the order of their   *)
(* registration, then the handler, then the response middleware with the    *)
(* last registered first, and the message sent is the handler's response.   *)
MiddlewareOrder ==
    app.pc = "done" /\ ReturnNothing(app.request_middleware)
                    /\ ReturnNothing(app.response_middleware) =>
        LET nreq == Len(app.request_middleware)
            nres == Len(app.response_middleware)
        IN  /\ app.order =
                  [i \in 1..(nreq + 1 + nres) |->
                     IF i <= nreq THEN [at |-> "request", n |-> i]
                     ELSE IF i = nreq + 1 THEN HandlerRan
                     ELSE [at |-> "response", n |-> nres - (i - nreq - 1) + 1]]
            /\ app.message = Some(HandlerRan)

(* a finished run with three middleware of each kind, none returning anything *)
SixMiddlewareRan ==
    /\ app.pc = "done"
    /\ Len(app.request_middleware) = 3 /\ Len(app.response_middleware) = 3
    /\ ReturnNothing(app.request_middleware) /\ ReturnNothing(app.response_middleware)
    /\ Len(app.order) = 7

----------------------------------------------------------------------------
(* C33: the messages built on one WebSocket connection carry the orders   *)
(* 0, 1, 2, ... in the order they were built: the connect message has     *)
(* order 0, each later message one more than the one before, and the      *)
(* disconnect message, being the last, the largest.                       *)
WebSocketOrders ==
    \A c \in Conns : conn[c].websocket # None =>
        LET messages == Val(conn[c].websocket).messages
        IN  /\ messages # <<>>
            /\ messages[1].channel = "websocket.connect"
            /\ \A i \in 1..Len(messages) :
                  /\ messages[i].order = i - 1
                  /\ messages[i].channel = "websocket.disconnect" => i = Len(messages)
                  /\ messages[i].channel = "websocket.connect" => i = 1

(* a connection that was accepted, received two frames and was disconnected *)
FramesThenDisconnect ==
    \E c \in Conns : conn[c].websocket # None /\
        LET messages == Val(conn[c].websocket).messages
        IN  /\ Len(messages) = 4
            /\ messages[2].channel = "websocket.receive"
            /\ messages[3].channel = "websocket.receive"
            /\ messages[4].channel = "websocket.disconnect"

----------------------------------------------------------------------------
(* C34: a connection is reset to idle only after the message of the      *)
(* request being received is complete: when bytes arrive on a connection  *)
(* without a parser, no request is still incomplete, so the fresh parser  *)
(* is never fed the rest of an earlier request's body as the start of the *)
(* next request.                                                          *)
DataFed(c) == sent' # sent /\ conn'[c] # conn[c]

FreshParserStartsRequest ==
    [][\A c \in Conns : (DataFed(c) /\ conn[c].parser = None) => conn[c].rx_req = 0]_vars

----------------------------------------------------------------------------
(* the handler task k of connection c awaits BodyChannel.receive() in *)
(* get_body and nothing is on its channel                              *)
Suspended(c, k) ==
    /\ k \in 1..Len(conn[c].handlers)
    /\ conn[c].handlers[k].state = "running"
    /\ conn[c].handlers[k].pc = "get_body"
    /\ conn[c].handlers[k].queue = <<>>

(* C35: a handler task suspended in BodyChannel.receive() whose connection *)
(* is lost before the message is complete does not stay suspended for     *)
(* ever: it is cancelled or it receives a chunk.                          *)
SuspendedTaskEnds ==
    \A c \in 1..NConn, k \in 1..MaxBytes :
        (Suspended(c, k) /\ conn[c].transport.lost) ~> ~Suspended(c, k)

----------------------------------------------------------------------------
(* a response written by write_error, which closes the transport when it *)
(* has written, or one after which send itself closed the transport      *)
ClosedByEngine(w) ==
    /\ w.kind = "response"
    /\ \/ w.via \notin {"reply", "upgrade"}
       \/ ~w.more_content /\ ~w.keep_alive

(* C36: a response after whose write the engine closes the transport in  *)
(* the same operation, every error response of write_error included, was *)
(* written with Connection: close and without a Keep-Alive hint.         *)
ClosedResponseSaysClose ==
    \A c \in Conns : \A i \in 1..Len(conn[c].wire) :
        ClosedByEngine(conn[c].wire[i]) =>
            /\ conn[c].wire[i].connection = "close"
            /\ conn[c].wire[i].timeout_header = None

----------------------------------------------------------------------------
(* the byte string content occurs in what one transport.write was given *)
WrittenIn(content, data) ==
    \E i \in 1..Len(data) :
        /\ i + Len(content) - 1 <= Len(data)
        /\ SubSeq(data, i, i + Len(content) - 1) = content

(* C37: the content of every response chunk given to send is written to *)
(* the transport: a chunk that carries content, the final one included,   *)
(* has its bytes in what the step writes.                                 *)
ChunkContentWritten ==
    [][\A c \in Conns : \A k \in 1..MaxBytes :
          SendsChunk(c, k) =>
              LET p == conn[c]
                  q == conn'[c]
                  m == q.handlers[k].sent[Len(q.handlers[k].sent)]
                  new == SubSeq(q.wire, Len(p.wire) + 1, Len(q.wire))
              IN  m.content # <<>> =>
                      \E j \in 1..Len(new) : WrittenIn(m.content, new[j].data)]_vars

(* what does hold: the content of a chunk that is not the final one is written *)
InnerChunkContentWritten ==
    [][\A c \in Conns : \A k \in 1..MaxBytes :
          SendsChunk(c, k) =>
              LET p == conn[c]
                  q == conn'[c]
                  m == q.handlers[k].sent[Len(q.handlers[k].sent)]
                  new == SubSeq(q.wire, Len(p.wire) + 1, Len(q.wire))
              IN  (m.content # <<>> /\ m.more_content) =>
                      \E j \in 1..Len(new) : WrittenIn(m.content, new[j].data)]_vars

----------------------------------------------------------------------------
(* C38: once upgrade_to_websocket has given the transport of a connection *)
(* to a WebSocketProtocol, the timer of the HttpProtocol does not act on  *)
(* it: no Request Timeout is raised for the connection and no 408 is      *)
(* written to its transport.                                              *)
NoTimeoutAfterUpgrade ==
    \A c \in Conns : IsWebSocket(c) =>
        /\ \A i \in 1..Len(conn[c].errors) : conn[c].errors[i] # 408
        /\ \A i \in 1..Len(conn[c].wire) :
              conn[c].wire[i].kind = "response" => conn[c].wire[i].status # 408

----------------------------------------------------------------------------
(* the request that connection c answered 400 'Invalid Handshake' *)
HandshakeRefused(c) ==
    \E i \in 1..Len(conn[c].wire) :
        /\ conn[c].wire[i].kind = "response"
        /\ conn[c].wire[i].via = "upgrade"
        /\ conn[c].wire[i].status = 400
        /\ conn[c].wire[i].content = InvalidHandshakeMsg

(* the upgrade request of connection c carried the handshake key *)
HasHandshakeKey(c) ==
    \E i \in 1..Len(conn[c].rxheaders) :
        lower(conn[c].rxheaders[i][1]) = "sec-websocket-key"

(* C39: a connection whose handshake check failed has answered 400        *)
(* 'Invalid Handshake' and is not upgraded: its transport has no          *)
(* WebSocketProtocol and no websocket.connect message was dispatched.     *)
RefusedHandshakeNotUpgraded ==
    \A c \in Conns :
        (conn[c]._is_upgrade /\ conn[c].reqno > 0 /\ conn[c].rx_req = 0
           /\ ~conn[c].rejected /\ ~HasHandshakeKey(c)) =>
            /\ HandshakeRefused(c)
            /\ conn[c].transport.protocol = "http"
            /\ conn[c].websocket = None

----------------------------------------------------------------------------
(* C40: between callbacks a connection without a parser holds no state of *)
(* a request: url, headers, request message, body channel and both task   *)
(* references are None and the byte counter is 0.                         *)
IdleHoldsNoRequestState ==
    \A c \in Conns : conn[c].parser = None =>
        /\ conn[c].url = None
        /\ conn[c].headers = None
        /\ conn[c].message = None
        /\ conn[c].body_channel = None
        /\ conn[c]._request_handler_task = None
        /\ conn[c]._request_stream_task = None
        /\ conn[c]._total_request_size = 0

(* a connection that is idle again after a request with a body was *)
(* dispatched and answered on a connection that is kept alive      *)
IdleAfterReply ==
    \E c \in Conns :
        /\ conn[c].parser = None
        /\ conn[c].rxbody # <<>>
        /\ \E k \in 1..Len(conn[c].handlers) : conn[c].handlers[k].produced # <<>>
        /\ \E i \in 1..Len(conn[c].wire) :
              /\ conn[c].wire[i].via = "reply"
              /\ conn[c].wire[i].keep_alive /\ ~conn[c].wire[i].more_content

(* a connection that is idle after its timer wrote the 408 *)
IdleAfterTimeout ==
    \E c \in Conns :
        /\ conn[c].parser = None
        /\ conn[c].reqno > 0
        /\ \E i \in 1..Len(conn[c].wire) : conn[c].wire[i].via = "connection_timeout"

====
